---------------------------- MODULE Spec2Model ----------------------------
(***************************************************************************)
(* Script compiler / decompiler of the Zanzarah database editor            *)
(* (src/zanzarah-database-editor.py).                                      *)
(*                                                                         *)
(* Python str values are TLA+ strings; a character is a string of length   *)
(* one.  Python lists are sequences, dictionaries are functions.  A Python *)
(* index i is the TLA+ index i + 1.                                        *)
(***************************************************************************)
EXTENDS Integers, Sequences, FiniteSets, TLC

(***************************************************************************)
(* Python built-ins used by the program                                    *)
(***************************************************************************)

\* s[i] for a Python index i >= 0 known to be in range.
CharAt(s, i) == SubSeq(s, i + 1, i + 1)

\* s.startswith(prefix)
StartsWith(s, prefix) ==
    /\ Len(prefix) <= Len(s)
    /\ SubSeq(s, 1, Len(prefix)) = prefix

\* s.find(sep, i - 1) + 1: the first 1-based position >= i where sep occurs, 0 if none.
RECURSIVE FindFrom(_, _, _)
FindFrom(s, sep, i) ==
    IF i + Len(sep) - 1 > Len(s) THEN 0
    ELSE IF SubSeq(s, i, i + Len(sep) - 1) = sep THEN i
    ELSE FindFrom(s, sep, i + 1)

\* s.split(sep) for a non-empty separator.
RECURSIVE Split(_, _)
Split(s, sep) ==
    LET i == FindFrom(s, sep, 1)
    IN  IF i = 0 THEN << s >>
        ELSE << SubSeq(s, 1, i - 1) >> \o Split(SubSeq(s, i + Len(sep), Len(s)), sep)

\* sep.join(list)
RECURSIVE Join(_, _)
Join(sep, list) ==
    IF Len(list) = 0 THEN ""
    ELSE IF Len(list) = 1 THEN list[1]
    ELSE list[1] \o sep \o Join(sep, Tail(list))

\* list(filter(None, list)): the non-empty strings of the list, in order.
RECURSIVE FilterNonEmpty(_)
FilterNonEmpty(list) ==
    IF Len(list) = 0 THEN << >>
    ELSE IF list[1] = "" THEN FilterNonEmpty(Tail(list))
    ELSE << list[1] >> \o FilterNonEmpty(Tail(list))

\* The characters str.strip() and int() treat as whitespace (those a TLA+ string can hold).
Whitespace == {" ", "\t", "\n", "\r", "\f"}

RECURSIVE LStrip(_)
LStrip(s) ==
    IF Len(s) > 0 /\ SubSeq(s, 1, 1) \in Whitespace THEN LStrip(SubSeq(s, 2, Len(s)))
    ELSE s

RECURSIVE RStrip(_)
RStrip(s) ==
    IF Len(s) > 0 /\ SubSeq(s, Len(s), Len(s)) \in Whitespace
    THEN RStrip(SubSeq(s, 1, Len(s) - 1))
    ELSE s

\* s.strip()
Strip(s) == LStrip(RStrip(s))

\* ' ' * n
RECURSIVE Spaces(_)
Spaces(n) == IF n <= 0 THEN "" ELSE " " \o Spaces(n - 1)

Digits == "0123456789"

\* str(n) for an integer n.
RECURSIVE StrOfNat(_)
StrOfNat(n) ==
    IF n < 10 THEN SubSeq(Digits, n + 1, n + 1)
    ELSE StrOfNat(n \div 10) \o SubSeq(Digits, (n % 10) + 1, (n % 10) + 1)

str(n) == IF n < 0 THEN "-" \o StrOfNat(-n) ELSE StrOfNat(n)

\* The value of one decimal digit character.
DigitValue(c) == CHOOSE d \in 0..9 : SubSeq(Digits, d + 1, d + 1) = c

IsDigit(c) == \E d \in 0..9 : SubSeq(Digits, d + 1, d + 1) = c

\* The value of a string of digits and underscores, read left to right.
RECURSIVE DigitsValue(_, _)
DigitsValue(s, acc) ==
    IF Len(s) = 0 THEN acc
    ELSE IF SubSeq(s, 1, 1) = "_" THEN DigitsValue(SubSeq(s, 2, Len(s)), acc)
    ELSE DigitsValue(SubSeq(s, 2, Len(s)), 10 * acc + DigitValue(SubSeq(s, 1, 1)))

\* Whether int() accepts the unsigned part: digits, single underscores only between digits.
IsIntBody(s) ==
    /\ Len(s) > 0
    /\ \A i \in 1..Len(s) : IsDigit(SubSeq(s, i, i)) \/ SubSeq(s, i, i) = "_"
    /\ IsDigit(SubSeq(s, 1, 1))
    /\ IsDigit(SubSeq(s, Len(s), Len(s)))
    /\ \A i \in 1..(Len(s) - 1) : SubSeq(s, i, i + 1) # "__"

\* int(s): [ok |-> FALSE] stands for ValueError.
int(s) ==
    LET t    == Strip(s)
        sign == IF Len(t) > 0 /\ SubSeq(t, 1, 1) \in {"+", "-"} THEN SubSeq(t, 1, 1) ELSE ""
        body == SubSeq(t, Len(sign) + 1, Len(t))
    IN  IF IsIntBody(body)
        THEN [ok |-> TRUE,
              value |-> IF sign = "-" THEN 0 - DigitsValue(body, 0) ELSE DigitsValue(body, 0)]
        ELSE [ok |-> FALSE, value |-> 0]

(***************************************************************************)
(* Static tables                                                           *)
(***************************************************************************)

\* The marker returned for every failed lookup.
NULL == "NULL"

\* The character '`' (a string literal cannot hold it alone).
Backtick == SubSeq("`'", 1, 1)

\* The (opcode, mnemonic) items of the SCRIPT_COMMANDS dictionary, in insertion order.
SCRIPT_COMMANDS_items ==
    << <<"!", "say">>,
       <<"C", "setModel">>,
       <<"\"", "choice">>,
       <<"#", "waitForUser">>,
       <<"$", "label">>,
       <<"&", "setCamera">>,
       <<"%", "exit">>,
       <<"'", "wizform">>,
       <<"(", "spell">>,
       <<"8", "else">>,
       <<")", "changeWaypoint">>,
       <<"*", "fight">>,
       <<"+", "lookAtPlayer">>,
       <<",", "changeDatabase">>,
       <<"-", "removeNpc">>,
       <<".", "catchWizform">>,
       <<"0", "killPlayer">>,
       <<"5", "tradingCurrency">>,
       <<"2", "tradingItem">>,
       <<"3", "tradingSpell">>,
       <<"4", "tradingWizform">>,
       <<"1", "givePlayerCards">>,
       <<"B", "setupGambling">>,
       <<"6", "ifPlayerHasCards">>,
       <<"@", "ifPlayerHasSpecials">>,
       <<"=", "ifTriggerIsActive">>,
       <<"9", "removePlayerCards">>,
       <<":", "moveSystem">>,
       <<"?", "movementSpeed">>,
       <<";", "modifyWizform">>,
       <<"<", "lockUserInput">>,
       <<">", "modifyTrigger">>,
       <<"A", "playAnimation">>,
       <<"D", "ifIsWizform">>,
       <<"E", "startPrelude">>,
       <<"F", "npcWizFormEscapes">>,
       <<"G", "dance">>,
       <<"H", "setGlobal">>,
       <<"I", "beginIf_global">>,
       <<"J", "talk">>,
       <<"K", "goto">>,
       <<"L", "gotoRandomLabel">>,
       <<"M", "ask">>,
       <<"N", "chafferWizForms">>,
       <<"O", "setNpcType">>,
       <<"P", "deployNpcAtTrigger">>,
       <<"Q", "delay">>,
       <<"R", "gotoLabelByRandom">>,
       <<"S", "ifCloseToWaypoint">>,
       <<"T", "removeWizForms">>,
       <<"U", "ifNpcModifierHasValue">>,
       <<"V", "setNpcModifier">>,
       <<"W", "defaultWizForm">>,
       <<"X", "idle">>,
       <<"Y", "ifPlayerIsClose">>,
       <<"Z", "ifNumberOfNpcsIs">>,
       <<"[", "startEffect">>,
       <<"\\", "setTalkLabels">>,
       <<"]", "setCollision">>,
       <<"^", "tradeWizform">>,
       <<"_", "createDynamicItems">>,
       <<Backtick, "playVideo">>,
       <<"a", "removeNpcAtTrigger">>,
       <<"b", "revive">>,
       <<"c", "lookAtTrigger">>,
       <<"d", "ifTriggerIsEnabled">>,
       <<"e", "playSound">>,
       <<"f", "playInArena">>,
       <<"g", "startActorEffect">>,
       <<"h", "endActorEffect">>,
       <<"i", "createSceneObjects">>,
       <<"j", "evolveWizForm">>,
       <<"k", "removeBehaviour">>,
       <<"l", "unlockDoor">>,
       <<"m", "endGame">>,
       <<"n", "defaultDeck">>,
       <<"o", "subGame">>,
       <<"p", "modifyEffect">>,
       <<"q", "playPlayerAnimation">>,
       <<"s", "playAmyVoice">>,
       <<"r", "createDynamicModel">>,
       <<"t", "deploySound">>,
       <<"u", "givePlayerPresent">>,
       <<"7", "endIf">> >>

\* All commands not in this dictionary take zero arguments.
script_command_parameters ==
    "label" :> <<"id">>
 @@ "goto" :> <<"labelId">>
 @@ "gotoRandomLabel" :> <<"int", "int">>
 @@ "say" :> <<"dialogUid", "silent">>
 @@ "setModel" :> <<"id">>
 @@ "choice" :> <<"ladelId", "uid">>
 @@ "setCamera" :> <<"code">>
 @@ "wizform" :> <<"deckSlot", "fairyId", "level">>
 @@ "spell" :> <<"deckSlot", "spellSlot", "spellId">>
 @@ "changeWaypoint" :> <<"startId", "endId">>
 @@ "fight" :> <<"sceneId", "multipleEnemiesBool">>
 @@ "lookAtPlayer" :> <<"seconds/10", "mode">>
 @@ "changeDatabase" :> <<"uid">>
 @@ "tradingCurrency" :> <<"uid">>
 @@ "tradingItem" :> <<"price", "uid">>
 @@ "tradingSpell" :> <<"price", "uid">>
 @@ "tradingWizform" :> <<"price", "uid">>
 @@ "givePlayerCards" :> <<"amount", "cardType", "id">>
 @@ "setupGambling" :> <<"amount", "cardType", "id">>
 @@ "ifPlayerHasCards" :> <<"amount", "cardType", "id">>
 @@ "ifPlayerHasSpecials" :> <<"condition", "argument">>
 @@ "ifTriggerIsActive" :> <<"id">>
 @@ "ifIsWizform" :> <<"fairyId">>
 @@ "removePlayerCards" :> <<"amount", "cardType", "id">>
 @@ "moveSystem" :> <<"waypointMode", "waypointCategory">>
 @@ "movementSpeed" :> <<"int">>
 @@ "modifyWizform" :> <<"subcommand", "argument">>
 @@ "lockUserInput" :> <<"bool">>
 @@ "modifyTrigger" :> <<"enable", "id", "triggerId">>
 @@ "playAnimation" :> <<"animationType", "UNUSED">>
 @@ "talk" :> <<"uid">>
 @@ "chafferWizForms" :> <<"uid1", "uid2", "uid3">>
 @@ "setNpcType" :> <<"int">>
 @@ "deployNpcAtTrigger" :> <<"id", "NpcOrPlayerBool">>
 @@ "delay" :> <<"duration">>
 @@ "ifCloseToWaypoint" :> <<"waypointId">>
 @@ "ifNpcModifierHasValue" :> <<"id">>
 @@ "setNpcModifier" :> <<"scene", "triggerId", "value">>
 @@ "defaultWizForm" :> <<"fairyId", "groupOrSlot", "level">>
 @@ "ifPlayerIsClose" :> <<"distance">>
 @@ "ifNumberOfNpcsIs" :> <<"amount", "uid">>
 @@ "startEffect" :> <<"effectType", "triggerId">>
 @@ "setTalkLabels" :> <<"yes", "no", "talkMode">>
 @@ "setCollision" :> <<"isSolidBool">>
 @@ "tradeWizform" :> <<"id">>
 @@ "createDynamicItems" :> <<"itemId", "count", "triggerId">>
 @@ "playVideo" :> <<"videoId">>
 @@ "removeNpcAtTrigger" :> <<"triggerId">>
 @@ "lookAtTrigger" :> <<"duration", "triggerId">>
 @@ "ifTriggerIsEnabled" :> <<"triggerId">>
 @@ "playSound" :> <<"soundId">>
 @@ "playInArena" :> <<"arg", "UNUSED">>
 @@ "createSceneObjects" :> <<"objectType">>
 @@ "removeBehaviour" :> <<"id">>
 @@ "unlockDoor" :> <<"id", "isMetalDoorBool">>
 @@ "defaultDeck" :> <<"groupId", "level", "UNUSED">>
 @@ "subGame" :> <<"gameType", "size", "exitLabel">>
 @@ "playPlayerAnimation" :> <<"animationType", "UNUSED">>
 @@ "playAmyVoice" :> <<"string">>
 @@ "createDynamicModel" :> <<"UNUSED", "UNUSED", "UNUSED">>
 @@ "deploySound" :> <<"id", "triggerId">>
 @@ "givePlayerPresent" :> <<"UNUSED">>
 @@ "startActorEffect" :> <<"id">>

AVAILABLE_ANIMATIONS ==
    << "Idle0", "Jump", "Run", "RunForwardLeft", "RunForwardRight",
       "Back", "Dance", "Fall", "Rotate", "Right",
       "Left", "Idle1", "Idle2", "Talk0", "Talk1",
       "Talk2", "Talk3", "Walk0", "Walk1", "Walk2",
       "SpecialIdle0", "SpecialIdle1", "SpecialIdle2", "FlyForward", "FlyBack",
       "FlyLeft", "FlyRight", "Loadup", "Hit", "Joy",
       "ThudGround", "UseFairyPipe", "UseSeaShell", "Smith", "Astonished",
       "Surprise0", "Surprise1", "Stop", "ThudGround2", "PixieFlounder",
       "JumpHigh" >>

\* Three characters of the source that a string of this module cannot hold are
\* written as characters the program uses nowhere, in the order of their code
\* points: U+25CB (white circle), U+25CF (black circle), U+2731 (heavy asterisk).
WHITE_CIRCLE == "{"

BLACK_CIRCLE == "|"

HEAVY_ASTERISK == "}"

\* The last element class is the character U+2731.
ELEMENT_CLASSES ==
    << "-/-", "Nature", "Air", "Water", "Light", "Energy", "Psi", "Stone", "Ice", "Fire", "Dark", "Chaos", "Metal", HEAVY_ASTERISK >>

\* The keys of a dictionary literal given by its items.
ItemKeys(items) == { items[k][1] : k \in 1..Len(items) }

\* A dictionary literal: of two items with the same key the later one is kept.
DictOfItems(items) ==
    [ key \in ItemKeys(items) |->
        LET last == CHOOSE k \in 1..Len(items) :
                        /\ items[k][1] = key
                        /\ \A j \in (k + 1)..Len(items) : items[j][1] # key
        IN  items[last][2] ]

\* opcode character -> mnemonic
SCRIPT_COMMANDS == DictOfItems(SCRIPT_COMMANDS_items)

\* mnemonic -> opcode character.  The loop
\*   for key, value in SCRIPT_COMMANDS.items(): REVERSE_SCRIPT_COMMANDS[value] = key
\* leaves, for every mnemonic, the opcode of the last item that carries it.
REVERSE_SCRIPT_COMMANDS ==
    [ value \in { SCRIPT_COMMANDS_items[k][2] : k \in 1..Len(SCRIPT_COMMANDS_items) } |->
        LET last == CHOOSE k \in 1..Len(SCRIPT_COMMANDS_items) :
                        /\ SCRIPT_COMMANDS[SCRIPT_COMMANDS_items[k][1]] = value
                        /\ \A j \in (k + 1)..Len(SCRIPT_COMMANDS_items) :
                               SCRIPT_COMMANDS[SCRIPT_COMMANDS_items[j][1]] # value
        IN  SCRIPT_COMMANDS_items[last][1] ]

(***************************************************************************)
(* Compiler                                                                *)
(***************************************************************************)

splitByWhitespace(string) == FilterNonEmpty(Split(string, " "))

\* Mutant of makeError: the line counter is printed as it is, counted from 0.
makeError_fromZero(line_counter, message) == "Line " \o str(line_counter) \o ": " \o message

makeError(line_counter, message) == "Line " \o str(line_counter + 1) \o ": " \o message

\* Mutant of Rest: the slice starts at the command, tokens[0:].
Rest_fromCommand(tokens) == tokens

\* tokens[1:]
Rest(tokens) == IF Len(tokens) = 0 THEN << >> ELSE Tail(tokens)

\* Mutant of LineSeparator: the test is index >= 0.
LineSeparator_always(index) == IF index >= 0 THEN "\n" ELSE ""

\* The separator put in front of the opcode of the line with the given index.
LineSeparator(index) == IF index > 0 THEN "\n" ELSE ""

\* Mutant of ArgumentCountIsWrong: the elif branch is missing, commands without a
\* parameter list are not checked.
ArgumentCountIsWrong_onlyListed(command, tokens) ==
    /\ command \in DOMAIN script_command_parameters
    /\ Len(tokens) - 1 # Len(script_command_parameters[command])

\* Arity tests that let a command pass with fewer arguments than it takes.
ArgumentCountIsWrong_tooManyOnly(command, tokens) ==
    IF command \in DOMAIN script_command_parameters
    THEN Len(tokens) - 1 > Len(script_command_parameters[command])
    ELSE Len(tokens) # 1

\* The two arity tests of compile: against the parameter list of the command, or
\* against zero for a command that has none.
ArgumentCountIsWrong(command, tokens) ==
    IF command \in DOMAIN script_command_parameters
    THEN Len(tokens) - 1 # Len(script_command_parameters[command])
    ELSE Len(tokens) # 1

\* The message of the arity error of a command.
ArgumentCountMessage(command) ==
    IF command \in DOMAIN script_command_parameters
    THEN "Command " \o command \o " takes exactly "
         \o str(Len(script_command_parameters[command]))
         \o " arguments: "
         \o Join(", ", script_command_parameters[command])
    ELSE "Command takes no arguments: " \o command

\* Mutant of compileLine: the comment of the line is not cut off.
compileLine_keepingComments(acc, index, line) ==
    LET line_without_comments == line
        tokens  == splitByWhitespace(line_without_comments)
        command == tokens[1]
        joined  == Join(".", Rest(tokens))
    IN  IF Len(tokens) = 0
        THEN [acc EXCEPT !.output = @ \o joined]
        ELSE IF command \notin DOMAIN REVERSE_SCRIPT_COMMANDS
        THEN [acc EXCEPT !.errors =
                 Append(@, makeError(index, "Unknown command: " \o command))]
        ELSE IF ArgumentCountIsWrong(command, tokens)
        THEN [acc EXCEPT !.errors =
                 Append(@, makeError(index, ArgumentCountMessage(command)))]
        ELSE [acc EXCEPT !.output =
                 @ \o LineSeparator(index)
                   \o REVERSE_SCRIPT_COMMANDS[command]
                   \o (IF Len(tokens) > 1 THEN "." ELSE "")
                   \o joined]

\* One iteration of the loop of compile: acc holds output and errors.
compileLine(acc, index, line) ==
    LET line_without_comments == Split(line, "//")[1]
        tokens  == splitByWhitespace(line_without_comments)
        command == tokens[1]
        joined  == Join(".", Rest(tokens))
    IN  IF Len(tokens) = 0
        THEN [acc EXCEPT !.output = @ \o joined]
        ELSE IF command \notin DOMAIN REVERSE_SCRIPT_COMMANDS
        THEN [acc EXCEPT !.errors =
                 Append(@, makeError(index, "Unknown command: " \o command))]
        ELSE IF ArgumentCountIsWrong(command, tokens)
        THEN [acc EXCEPT !.errors =
                 Append(@, makeError(index, ArgumentCountMessage(command)))]
        ELSE [acc EXCEPT !.output =
                 @ \o LineSeparator(index)
                   \o REVERSE_SCRIPT_COMMANDS[command]
                   \o (IF Len(tokens) > 1 THEN "." ELSE "")
                   \o joined]

\* The loop of compile over lines[index + 1 ..], Python index first.
RECURSIVE compileLoop(_, _, _)
compileLoop(acc, lines, index) ==
    IF index >= Len(lines) THEN acc
    ELSE compileLoop(compileLine(acc, index, lines[index + 1]), lines, index + 1)

\* Mutant of compile: the errors collected are not looked at.
compile_ignoringErrors(script) ==
    LET acc == compileLoop([output |-> "", errors |-> << >>], Split(script, "\n"), 0)
    IN  << TRUE, acc.output \o "\n" >>

\* Mutant of compile: the final newline is left out.
compile_withoutFinalNewline(script) ==
    LET acc == compileLoop([output |-> "", errors |-> << >>], Split(script, "\n"), 0)
    IN  IF Len(acc.errors) = 0
        THEN << TRUE, acc.output >>
        ELSE << FALSE, acc.errors >>

\* compile(script): <<TRUE, compiled code>> or <<FALSE, <<error 1, error 2, ...>> >>.
compile(script) ==
    LET acc == compileLoop([output |-> "", errors |-> << >>], Split(script, "\n"), 0)
    IN  IF Len(acc.errors) = 0
        THEN << TRUE, acc.output \o "\n" >>
        ELSE << FALSE, acc.errors >>

(***************************************************************************)
(* Database lookups (the resolver)                                         *)
(*                                                                         *)
(* A database is a record of tables.  fb0x01 (fairies), fb0x03 (spells)    *)
(* and fb0x04 (items) are sequences of rows [name |-> foreign key,         *)
(* card |-> card id] in fetchall() order; fb0x02 (labels) and fb0x06       *)
(* (dialogs) are functions from UID to text.                               *)
(***************************************************************************)

\* Mutant of fetchStringOrNull: a miss gives the empty string.
fetchStringOrNull_empty(table, uid) == IF uid \in DOMAIN table THEN table[uid] ELSE ""

\* fetchStringOrNull on a "select ... where UID = ?" query of a UID-keyed table.
fetchStringOrNull(table, uid) == IF uid \in DOMAIN table THEN table[uid] ELSE NULL

resolveLabel(sql_connection, uid) == fetchStringOrNull(sql_connection.fb0x02, uid)

resolveDialog(sql_connection, uid) == fetchStringOrNull(sql_connection.fb0x06, uid)

\* (card_id >> 16) & 0xffff
getCardEntityId(card_id) == (card_id \div 65536) % 65536

\* The loop of resolveCardIdName over the rows card_values[k ..].
RECURSIVE resolveCardIdNameFrom(_, _, _, _)
resolveCardIdNameFrom(sql_connection, card_values, entity_id, k) ==
    IF k > Len(card_values) THEN NULL
    ELSE IF str(getCardEntityId(card_values[k].card)) = entity_id
    THEN resolveLabel(sql_connection, Split(card_values[k].name, "|")[1])
    ELSE resolveCardIdNameFrom(sql_connection, card_values, entity_id, k + 1)

resolveCardIdName(sql_connection, card_values, entity_id) ==
    resolveCardIdNameFrom(sql_connection, card_values, entity_id, 1)

resolveFairyName(sql_connection, fairy_id) ==
    resolveCardIdName(sql_connection, sql_connection.fb0x01, fairy_id)

\* resolveCardDescription with 'Blank' as the answer to every other card type.
resolveCardDescription_blankDefault(sql_connection, card_type, card_id) ==
    IF card_type = "0"
    THEN "Item: " \o resolveCardIdName(sql_connection, sql_connection.fb0x04, card_id)
    ELSE IF card_type = "1"
    THEN "Spell: " \o resolveCardIdName(sql_connection, sql_connection.fb0x03, card_id)
    ELSE IF card_type = "2"
    THEN "Fairy: " \o resolveFairyName(sql_connection, card_id)
    ELSE "Blank"

resolveCardDescription(sql_connection, card_type, card_id) ==
    IF card_type = "0"
    THEN "Item: " \o resolveCardIdName(sql_connection, sql_connection.fb0x04, card_id)
    ELSE IF card_type = "1"
    THEN "Spell: " \o resolveCardIdName(sql_connection, sql_connection.fb0x03, card_id)
    ELSE IF card_type = "2"
    THEN "Fairy: " \o resolveFairyName(sql_connection, card_id)
    ELSE IF card_type = "3"
    THEN "Blank"
    ELSE NULL

(***************************************************************************)
(* Annotation engine                                                       *)
(*                                                                         *)
(* A call that can raise returns [raised |-> BOOLEAN, value |-> text]:     *)
(* raised stands for the IndexError of reading arguments[i] past the end.  *)
(***************************************************************************)

Returned(text) == [raised |-> FALSE, value |-> text]

IndexError == [raised |-> TRUE, value |-> "IndexError"]

\* Whether arguments[i] (Python index) exists.
HasIndex(arguments, i) == i < Len(arguments)

\* Indexing without the test for a negative index: list[-1] is the last element.
indexListByMaybeInt_wrapping(string_list, maybe_integer) ==
    LET index == int(maybe_integer)
    IN  IF index.ok /\ index.value < 0 /\ 0 - index.value <= Len(string_list)
        THEN string_list[Len(string_list) + index.value + 1]
        ELSE IF index.ok /\ index.value >= 0 /\ index.value < Len(string_list)
        THEN string_list[index.value + 1]
        ELSE NULL

indexListByMaybeInt(string_list, maybe_integer) ==
    LET index == int(maybe_integer)
    IN  IF index.ok /\ index.value >= 0 /\ index.value < Len(string_list)
        THEN string_list[index.value + 1]
        ELSE NULL

makeDecompiledSpecialsComment(arguments) ==
    IF ~HasIndex(arguments, 0) THEN IndexError
    ELSE IF arguments[1] = "1"
    THEN IF ~HasIndex(arguments, 1) THEN IndexError
         ELSE Returned("; Player has"
                       \o (IF arguments[2] = "0" THEN " no" ELSE "")
                       \o " Fairy in Deck")
    ELSE IF arguments[1] = "2"
    THEN Returned("; Player has at least n fairies")
    ELSE IF arguments[1] = "3"
    THEN IF ~HasIndex(arguments, 1) THEN IndexError
         ELSE Returned("; Player can show "
                       \o indexListByMaybeInt(ELEMENT_CLASSES, arguments[2])
                       \o " Fairy")
    ELSE Returned("")

makeActorEffectComment(id_argument) ==
    IF id_argument = "0" THEN "; Rain clouds with lightning"
    ELSE IF id_argument = "1" THEN "; Orange sphere"
    ELSE ""

subcommand_descriptions ==
       "0"  :> "; Heal"
    @@ "1"  :> "; Add exp"
    @@ "2"  :> "; Clear status effects"
    @@ "8"  :> "; Add exp to almost next level"
    @@ "16" :> "; Revive fairy"
    @@ "17" :> "; Fill up mana"
    @@ "18" :> "; Rename fairy"

modes ==
       "-1" :> "Idle: Don't look at player"
    @@ "1"  :> "Rotate to player"
    @@ "2"  :> "Rotate to player smoothly"
    @@ "3"  :> "Rotate to player like a billboard"

\* The text makeDecompiledParameterComment appends to ' // ' + names, or IndexError.
CommentDescription(command, arguments, sql_connection) ==
    IF command = "wizform"
    THEN IF ~HasIndex(arguments, 1) THEN IndexError
         ELSE Returned("; " \o resolveFairyName(sql_connection, arguments[2]))
    ELSE IF command = "defaultWizForm" \/ command = "ifIsWizform"
    THEN IF ~HasIndex(arguments, 0) THEN IndexError
         ELSE Returned("; " \o resolveFairyName(sql_connection, arguments[1]))
    ELSE IF command = "say" \/ command = "talk"
    THEN IF ~HasIndex(arguments, 0) THEN IndexError
         ELSE Returned("; " \o resolveDialog(sql_connection, arguments[1]))
    ELSE IF command = "choice"
    THEN IF ~HasIndex(arguments, 1) THEN IndexError
         ELSE Returned("; " \o resolveDialog(sql_connection, arguments[2]))
    ELSE IF command \in {"givePlayerCards", "setupGambling",
                         "ifPlayerHasCards", "removePlayerCards"}
    THEN IF ~HasIndex(arguments, 1) \/ ~HasIndex(arguments, 2) THEN IndexError
         ELSE Returned("; " \o resolveCardDescription(sql_connection,
                                                      arguments[2], arguments[3]))
    ELSE IF command = "modifyWizform"
    THEN IF ~HasIndex(arguments, 0) THEN IndexError
         ELSE IF arguments[1] = "7"
         THEN IF ~HasIndex(arguments, 1) THEN IndexError
              ELSE Returned("; Evolve to "
                            \o resolveFairyName(sql_connection, arguments[2]))
         ELSE IF arguments[1] \in DOMAIN subcommand_descriptions
         THEN Returned("; " \o subcommand_descriptions[arguments[1]])
         ELSE Returned("")
    ELSE IF command = "ifPlayerHasSpecials"
    THEN makeDecompiledSpecialsComment(arguments)
    ELSE IF command = "lookAtPlayer"
    THEN IF ~HasIndex(arguments, 1) THEN IndexError
         ELSE IF arguments[2] \in DOMAIN modes
         THEN Returned("; " \o modes[arguments[2]])
         ELSE Returned("")
    ELSE IF command = "playAnimation" \/ command = "playPlayerAnimation"
    THEN IF ~HasIndex(arguments, 0) THEN IndexError
         ELSE Returned("; Animation: "
                       \o indexListByMaybeInt(AVAILABLE_ANIMATIONS, arguments[1]))
    ELSE IF command = "startActorEffect"
    THEN IF ~HasIndex(arguments, 0) THEN IndexError
         ELSE Returned(makeActorEffectComment(arguments[1]))
    ELSE Returned("")

\* makeDecompiledParameterComment that gives the names only along with a description.
makeDecompiledParameterComment_bare(command, arguments, sql_connection) ==
    LET parameter_names == script_command_parameters[command]
        result      == " // " \o Join(", ", parameter_names)
        description == CommentDescription(command, arguments, sql_connection)
    IN  IF description.raised THEN description
        ELSE IF description.value = "" THEN Returned("")
        ELSE Returned(result \o description.value)

makeDecompiledParameterComment(command, arguments, sql_connection) ==
    LET parameter_names == script_command_parameters[command]
        result      == " // " \o Join(", ", parameter_names)
        description == CommentDescription(command, arguments, sql_connection)
    IN  IF description.raised THEN description
        ELSE Returned(result \o description.value)

(***************************************************************************)
(* Decompiler                                                              *)
(***************************************************************************)

max(a, b) == IF a >= b THEN a ELSE b

\* Mutant of IndentationBefore: the indentation is not floored at zero.
IndentationBefore_unfloored(command, indentation) ==
    IF command = "endIf" THEN indentation - 4 ELSE indentation

\* The indentation in effect when the line of the given command is printed.
IndentationBefore(command, indentation) ==
    IF command = "endIf" THEN max(indentation - 4, 0) ELSE indentation

\* The indentation after the line of the given command.
IndentationAfter(command, indentation) ==
    IF StartsWith(command, "if") THEN indentation + 4 ELSE indentation

\* Mutant of decompileLine: a line without known opcode is passed through trimmed.
decompileLine_trimmed(acc, line, sql_connection) ==
    LET tokens == Split(Strip(line), ".")
    IN  IF tokens[1] \in DOMAIN SCRIPT_COMMANDS
        THEN LET command == SCRIPT_COMMANDS[tokens[1]]
                 indent  == IndentationBefore(command, acc.indentation)
                 text    == (IF command # "else" THEN Spaces(indent) ELSE "")
                            \o command
                            \o (IF Len(tokens) > 1
                                THEN " " \o Join(" ", Tail(tokens)) ELSE "")
                 comment == IF command \in DOMAIN script_command_parameters
                            THEN makeDecompiledParameterComment(
                                     command, Tail(tokens), sql_connection)
                            ELSE Returned("")
             IN  IF comment.raised
                 THEN [acc EXCEPT !.raised = TRUE]
                 ELSE [acc EXCEPT
                         !.result = @ \o text \o comment.value \o "\n",
                         !.indentation = IndentationAfter(command, indent)]
        ELSE [acc EXCEPT !.result = @ \o Strip(line) \o "\n"]

\* One iteration of the loop of decompile: acc holds result, indentation and raised.
decompileLine(acc, line, sql_connection) ==
    LET tokens == Split(Strip(line), ".")
    IN  IF tokens[1] \in DOMAIN SCRIPT_COMMANDS
        THEN LET command == SCRIPT_COMMANDS[tokens[1]]
                 indent  == IndentationBefore(command, acc.indentation)
                 text    == (IF command # "else" THEN Spaces(indent) ELSE "")
                            \o command
                            \o (IF Len(tokens) > 1
                                THEN " " \o Join(" ", Tail(tokens)) ELSE "")
                 comment == IF command \in DOMAIN script_command_parameters
                            THEN makeDecompiledParameterComment(
                                     command, Tail(tokens), sql_connection)
                            ELSE Returned("")
             IN  IF comment.raised
                 THEN [acc EXCEPT !.raised = TRUE]
                 ELSE [acc EXCEPT
                         !.result = @ \o text \o comment.value \o "\n",
                         !.indentation = IndentationAfter(command, indent)]
        ELSE [acc EXCEPT !.result = @ \o line \o "\n"]

\* The loop of decompile over lines[k ..]; it ends at the first line that raises.
RECURSIVE decompileLoop(_, _, _, _)
decompileLoop(acc, lines, k, sql_connection) ==
    IF k > Len(lines) \/ acc.raised THEN acc
    ELSE decompileLoop(decompileLine(acc, lines[k], sql_connection),
                       lines, k + 1, sql_connection)

\* decompile that joins the lines with newlines instead of ending each with one.
decompile_joined(sql_connection, script) ==
    LET acc == decompileLoop([result |-> "", indentation |-> 0, raised |-> FALSE],
                             Split(script, "\n"), 1, sql_connection)
    IN  IF acc.raised THEN IndexError
        ELSE Returned(SubSeq(acc.result, 1, Len(acc.result) - 1))

\* decompile(sql_connection, script): the text returned, or IndexError when it raises.
decompile(sql_connection, script) ==
    LET acc == decompileLoop([result |-> "", indentation |-> 0, raised |-> FALSE],
                             Split(script, "\n"), 1, sql_connection)
    IN  IF acc.raised THEN IndexError ELSE Returned(acc.result)

(***************************************************************************)
(* Bounds and inputs                                                       *)
(***************************************************************************)

\* Longest script, in lines, of the multi-line inputs.
MaxLines == 3

\* How many arguments fewer or more than its arity a single command is given.
MaxExtra == 1

KnownMnemonics == DOMAIN REVERSE_SCRIPT_COMMANDS

KnownOpcodes == DOMAIN SCRIPT_COMMANDS

\* The number of arguments compile demands of a known mnemonic.
Arity(m) ==
    IF m \in DOMAIN script_command_parameters
    THEN Len(script_command_parameters[m]) ELSE 0

\* Sequences over S with lo..hi elements.
SeqsBetween(S, lo, hi) == UNION { [1..n -> S] : n \in max(lo, 0)..hi }

\* Words typed where a command is expected that are no mnemonic.
UnknownWords == {"foo"}

\* Argument words of source lines: plain, with a '.', with a '//'.
ArgWords == {"1", "a.b", "x//y"}

\* A source line is a list of words, typed with one space between them; the empty
\* word stands for an extra space.
SourceLine(words) == Join(" ", words)

\* One command, every mnemonic, with about as many arguments as its arity.
SingleLineSources ==
    UNION { { << <<m>> \o args >> :
                args \in SeqsBetween(ArgWords, Arity(m) - MaxExtra, Arity(m) + MaxExtra) } :
            m \in KnownMnemonics \cup UnknownWords }

\* The lines the multi-line scripts are made of: blank, comment only, indented,
\* commented, unknown command, wrong arity, and well-formed commands.
SourceLines ==
    { << >>,
      << "//", "note" >>,
      << "foo" >>,
      << "label" >>,
      << "label", "1" >>,
      << "endIf", "1" >>,
      << "endIf" >>,
      << "else" >>,
      << "ifTriggerIsActive", "1" >>,
      << "", "", "say", "1", "", "0", "//", "hi" >> }

MultiLineSources == SeqsBetween(SourceLines, 1, MaxLines)

Sources == SingleLineSources \cup MultiLineSources

\* The text of a source: its lines joined by newlines.
SourceText(src) == Join("\n", [ i \in 1..Len(src) |-> SourceLine(src[i]) ])

\* Arguments of packed lines.
PackedArgs == {"0", "1", "99"}

\* A packed line: '.'-joined tokens.
PackedLine(tokens) == Join(".", tokens)

\* One packed line, every opcode, with about as many arguments as its arity.
SinglePackedLines ==
    UNION { { PackedLine(<<o>> \o args) :
                args \in SeqsBetween(PackedArgs, Arity(SCRIPT_COMMANDS[o]) - MaxExtra,
                                     Arity(SCRIPT_COMMANDS[o]) + MaxExtra) } :
            o \in KnownOpcodes }

\* The lines the multi-line packed texts are made of.
PackedLines ==
    { "", "7", "8", "=.1", " 7 ", "zz.1", ".", "!.1.0" }

MultiPackedTexts ==
    { Join("\n", ls) : ls \in SeqsBetween(PackedLines, 1, MaxLines) }

\* Arguments the annotation looks up: identifiers and indexes with and without
\* entry, subcommands and conditions, a number out of every range, a word.
LookupArgs == {"0", "1", "2", "3", "7", "99", "x"}

\* The commands whose annotation reads an argument.
LookupCommands ==
    { "wizform", "defaultWizForm", "ifIsWizform", "say", "talk", "choice",
      "givePlayerCards", "setupGambling", "ifPlayerHasCards", "removePlayerCards",
      "modifyWizform", "ifPlayerHasSpecials", "lookAtPlayer", "playAnimation",
      "playPlayerAnimation", "startActorEffect" }

\* One packed line of each of these commands, with as many arguments as its arity.
LookupPackedLines ==
    UNION { { PackedLine(<<o>> \o args) :
                args \in SeqsBetween(LookupArgs, Arity(SCRIPT_COMMANDS[o]),
                                     Arity(SCRIPT_COMMANDS[o])) } :
            o \in { x \in KnownOpcodes : SCRIPT_COMMANDS[x] \in LookupCommands } }

\* Arguments handed to indexListByMaybeInt: the ends of both lists, numbers
\* past them, signed and padded numerals, numerals with underscores, no numeral.
IndexArgs ==
    { "0", "13", "14", "40", "41", "99", "-1", "-0", "-14", "+1", " 1", "1_0",
      "1_", "x", "" }

\* The packed lines whose annotation calls indexListByMaybeInt.
IndexPackedLines ==
    { PackedLine(<<REVERSE_SCRIPT_COMMANDS["playAnimation"], a, "0">>) : a \in IndexArgs }
    \cup { PackedLine(<<REVERSE_SCRIPT_COMMANDS["ifPlayerHasSpecials"], "3", a>>) :
             a \in IndexArgs }

PackedTexts ==
    SinglePackedLines \cup MultiPackedTexts \cup LookupPackedLines \cup IndexPackedLines

\* A database without rows.
EmptyDB ==
    [ fb0x01 |-> << >>, fb0x03 |-> << >>, fb0x04 |-> << >>, fb0x05 |-> << >>,
      fb0x02 |-> [ uid \in {} |-> "" ], fb0x06 |-> [ uid \in {} |-> "" ] ]

\* The names of the five scripts of an NPC, in the order of code_box_names.
code_box_names == << "Init", "Update", "Trigger", "Victorious", "Defeated" >>

\* A database with a few rows; the fairy with entity id 3 has no label.  Rows of
\* fb0x04 (items) also carry their UID and script, rows of fb0x05 (NPCs) their
\* UID, name key and five scripts.
SampleDB ==
    [ fb0x01 |-> << [name |-> "F1|0", card |-> 65536],
                    [name |-> "F3|0", card |-> 196613] >>,
      fb0x03 |-> << [name |-> "S1|0", card |-> 65536] >>,
      fb0x04 |-> << [name |-> "I0|0", card |-> 7, uid |-> "A04", script |-> "7\n"] >>,
      fb0x05 |-> << [uid |-> "B05", name |-> "L5|0",
                     scripts |-> [ n \in { code_box_names[k] : k \in 1..5 } |->
                                     IF n = "Init" THEN "$.1\n" ELSE "7\n" ]] >>,
      fb0x02 |-> ("F1" :> "Sillia" @@ "S1" :> "Flash" @@ "I0" :> "Key" @@ "L5" :> "Rufus"),
      fb0x06 |-> ("1" :> "Hello") ]

Databases == {EmptyDB, SampleDB}

(***************************************************************************)
(* Editor views                                                            *)
(*                                                                         *)
(* A method returns "True", "False" or a text, or the name of the          *)
(* exception it raises; None is the value "None".                          *)
(***************************************************************************)

None == "None"

\* The position of the first row whose card has the given entity id, 0 if none:
\* the loop of fetchUidAndDecompiledScript.
FirstItemRow(rows, item_id) ==
    IF \E k \in 1..Len(rows) : str(getCardEntityId(rows[k].card)) = item_id
    THEN CHOOSE k \in 1..Len(rows) :
             /\ str(getCardEntityId(rows[k].card)) = item_id
             /\ \A j \in 1..(k - 1) : str(getCardEntityId(rows[j].card)) # item_id
    ELSE 0

\* The item view after setupEditForID has cleared it.
ItemEditorView_reset == [current_item_uid |-> None, code_box |-> ""]

\* The end of ItemEditorView.setupEditForID, given the value or exception of the
\* decompile in fetchUidAndDecompiledScript.
ItemEditorView_show(uid, decompiled_script) ==
    IF decompiled_script.raised
    THEN [view |-> ItemEditorView_reset, returned |-> "IndexError"]
    ELSE [view |-> [current_item_uid |-> uid, code_box |-> decompiled_script.value],
          returned |-> "True"]

\* ItemEditorView.setupEditForID: the view after the call and what the call returns.
\* fetchUidAndDecompiledScript returns None for an id without row, and unpacking
\* None into uid and decompiled_script raises TypeError.
ItemEditorView_setupEditForID(sql, item_id) ==
    LET k == FirstItemRow(sql.fb0x04, item_id)
    IN  IF k = 0 THEN [view |-> ItemEditorView_reset, returned |-> "TypeError"]
        ELSE ItemEditorView_show(sql.fb0x04[k].uid,
                                 decompile(sql, sql.fb0x04[k].script))

\* "if success is False" on the value compileAndShowErrorMessage returns.
CompileFailed(result) == result[1] = FALSE

\* "update _fb0x04 set col_4_String = ? where UID = ?"
UpdateItemScript(sql, uid, text) ==
    [sql EXCEPT !.fb0x04 =
        [ k \in 1..Len(@) |-> IF @[k].uid = uid THEN [@[k] EXCEPT !.script = text]
                              ELSE @[k] ]]

\* What writeChangesToDatabase of a view gives when it returns False: nothing is
\* written, the view is as it was.
NothingWritten(view, sql) ==
    [view |-> view, sql |-> sql, updates |-> 0, returned |-> "False"]

\* The end of ItemEditorView.writeChangesToDatabase, given the script written and
\* the value or exception of the decompile that reformats it.
ItemEditorView_showReformatted(view, written, reformated_script) ==
    IF reformated_script.raised
    THEN [view |-> view, sql |-> written, updates |-> 1, returned |-> "IndexError"]
    ELSE [view |-> [view EXCEPT !.code_box = reformated_script.value],
          sql |-> written, updates |-> 1, returned |-> "True"]

\* ItemEditorView.writeChangesToDatabase after compileAndShowErrorMessage, given
\* the value compile returned.
ItemEditorView_writeCompiled(view, sql, result) ==
    IF CompileFailed(result) THEN NothingWritten(view, sql)
    ELSE ItemEditorView_showReformatted(
             view, UpdateItemScript(sql, view.current_item_uid, result[2]),
             decompile(UpdateItemScript(sql, view.current_item_uid, result[2]),
                       result[2]))

\* ItemEditorView.writeChangesToDatabase: the view and the database after the
\* call, how many SQL updates it executed, and what it returns.
ItemEditorView_writeChangesToDatabase(view, sql) ==
    IF view.current_item_uid = None THEN NothingWritten(view, sql)
    ELSE ItemEditorView_writeCompiled(view, sql, compile(view.code_box))

\* The rows of fb0x05 with the given UID, in order, from the k-th row on:
\* fetchall() of fetchAllNpcScripts.
RECURSIVE NpcRowsFrom(_, _, _)
NpcRowsFrom(sql, npc_uid, k) ==
    IF k > Len(sql.fb0x05) THEN << >>
    ELSE IF sql.fb0x05[k].uid = npc_uid
    THEN << sql.fb0x05[k] >> \o NpcRowsFrom(sql, npc_uid, k + 1)
    ELSE NpcRowsFrom(sql, npc_uid, k + 1)

NpcRows(sql, npc_uid) == NpcRowsFrom(sql, npc_uid, 1)

\* NPCEditorView.fullReset
NPCEditorView_fullReset(view) ==
    [view EXCEPT !.current_npc_uid = None,
                 !.code_boxes = [ n \in DOMAIN @ |-> "" ]]

\* The loop of NPCEditorView.setupEditForID that fills the code boxes, from the
\* k-th name on; it stops at the first script whose decompile raises.
RECURSIVE FillCodeBoxes(_, _, _, _)

\* One iteration of that loop, given the value or exception of its decompile.
FillCodeBox(boxes, scripts, sql, k, decompiled_script) ==
    IF decompiled_script.raised THEN [boxes |-> boxes, raised |-> TRUE]
    ELSE FillCodeBoxes([boxes EXCEPT ![code_box_names[k]] = decompiled_script.value],
                       scripts, sql, k + 1)

FillCodeBoxes(boxes, scripts, sql, k) ==
    IF k > Len(code_box_names) THEN [boxes |-> boxes, raised |-> FALSE]
    ELSE FillCodeBox(boxes, scripts, sql, k,
                     decompile(sql, scripts[code_box_names[k]]))

\* The end of NPCEditorView.setupEditForID, given the view with its name shown
\* and the code boxes filled.
NPCEditorView_showFilled(named, npc_uid, filled) ==
    IF filled.raised
    THEN [view |-> [named EXCEPT !.code_boxes = filled.boxes],
          returned |-> "IndexError"]
    ELSE [view |-> [named EXCEPT !.code_boxes = filled.boxes,
                                 !.current_npc_uid = npc_uid],
          returned |-> "True"]

\* NPCEditorView.setupEditForID after fullReset, given the name key of the row
\* split at '|' and the scripts of the row.
NPCEditorView_showRow(reset, sql, npc_uid, key, scripts) ==
    IF Len(key) < 2 THEN [view |-> reset, returned |-> "IndexError"]
    ELSE NPCEditorView_showFilled(
             [reset EXCEPT !.name_uid_suffix = key[2],
                           !.name_combobox = "String(" \o key[1] \o ") "
                                             \o resolveLabel(sql, key[1])],
             npc_uid, FillCodeBoxes(reset.code_boxes, scripts, sql, 1))

\* NPCEditorView.setupEditForID after fullReset, given the rows fetched.
NPCEditorView_showRows(reset, sql, npc_uid, rows) ==
    IF Len(rows) = 0 THEN [view |-> reset, returned |-> "IndexError"]
    ELSE NPCEditorView_showRow(reset, sql, npc_uid, Split(rows[1].name, "|"),
                               rows[1].scripts)

\* NPCEditorView.setupEditForID: the view after the call and what the call returns.
\* fetchAllNpcScripts reads result[0] of the rows fetched: IndexError without row.
NPCEditorView_setupEditForID(view, sql, npc_uid) ==
    NPCEditorView_showRows(NPCEditorView_fullReset(view), sql, npc_uid,
                           NpcRows(sql, npc_uid))

\* extractUid: 'NPC(E12F912) Rufus' -> 'E12F912'
extractUid(string) == Split(Split(string, "(")[2], ")")[1]

\* NPCNameCombobox.getName: the text without a leading 'String(...) '.
NPCNameCombobox_getName(text) ==
    LET close == FindFrom(text, ")", 1)
    IN  IF StartsWith(text, "String(") /\ close > 8
           /\ SubSeq(text, close + 1, close + 1) = " "
        THEN SubSeq(text, close + 2, Len(text))
        ELSE text

\* "update _fb0x05 set col_0_ForeignKey = ?, col_2_String = ?, ... where UID = ?"
UpdateNpcScripts(sql, uid, name_key, texts) ==
    [sql EXCEPT !.fb0x05 =
        [ k \in 1..Len(@) |-> IF @[k].uid = uid
                              THEN [@[k] EXCEPT !.name = name_key, !.scripts = texts]
                              ELSE @[k] ]]

\* The loop of NPCEditorView.writeChangesToDatabase that shows the reformatted
\* scripts, from the k-th name on.
RECURSIVE ReformatCodeBoxes(_, _, _, _)

\* One iteration of that loop, given the value or exception of its decompile.
ReformatCodeBox(boxes, texts, sql, k, reformated_script) ==
    IF reformated_script.raised THEN [boxes |-> boxes, raised |-> TRUE]
    ELSE ReformatCodeBoxes([boxes EXCEPT ![code_box_names[k]] = reformated_script.value],
                           texts, sql, k + 1)

ReformatCodeBoxes(boxes, texts, sql, k) ==
    IF k > Len(code_box_names) THEN [boxes |-> boxes, raised |-> FALSE]
    ELSE ReformatCodeBox(boxes, texts, sql, k,
                         decompile(sql, texts[code_box_names[k]]))

\* The end of NPCEditorView.writeChangesToDatabase, given the database written
\* and the code boxes after the loop that reformats them.
NPCEditorView_showReformatted(view, written, shown) ==
    IF shown.raised
    THEN [view |-> [view EXCEPT !.code_boxes = shown.boxes], sql |-> written,
          updates |-> 1, returned |-> "IndexError"]
    ELSE [view |-> [view EXCEPT !.code_boxes = shown.boxes], sql |-> written,
          updates |-> 1,
          returned |-> "NPC(" \o view.current_npc_uid \o ") "
                       \o NPCNameCombobox_getName(view.name_combobox)]

\* The update of NPCEditorView.writeChangesToDatabase and what follows it, given
\* the five compiled scripts.
NPCEditorView_writeScripts(view, compiled_scripts, written) ==
    NPCEditorView_showReformatted(
        view, written, ReformatCodeBoxes(view.code_boxes, compiled_scripts, written, 1))

\* NPCEditorView.writeChangesToDatabase after its first loop, given the value
\* compile returned for each code box.
NPCEditorView_writeCompiled(view, sql, results) ==
    IF \E k \in 1..Len(code_box_names) : CompileFailed(results[code_box_names[k]])
    THEN NothingWritten(view, sql)
    ELSE NPCEditorView_writeScripts(
             view, [ n \in DOMAIN results |-> results[n][2] ],
             UpdateNpcScripts(sql, view.current_npc_uid,
                              extractUid(view.name_combobox) \o "|"
                              \o view.name_uid_suffix,
                              [ n \in DOMAIN results |-> results[n][2] ]))

\* NPCEditorView.writeChangesToDatabase: the view and the database after the call,
\* how many SQL updates it executed, and what it returns.  The first loop returns
\* False at the first script that does not compile, before anything is written.
NPCEditorView_writeChangesToDatabase(view, sql) ==
    IF view.current_npc_uid = None THEN NothingWritten(view, sql)
    ELSE NPCEditorView_writeCompiled(
             view, sql, [ n \in DOMAIN view.code_boxes |-> compile(view.code_boxes[n]) ])

(***************************************************************************)
(* SearchCache                                                             *)
(*                                                                         *)
(* A cache is the list self.cache of items [sort_key, displayed_text,      *)
(* string_to_search, search_suggestion].                                   *)
(***************************************************************************)

UpperCase == "ABCDEFGHIJKLMNOPQRSTUVWXYZ"

LowerCase == "abcdefghijklmnopqrstuvwxyz"

UpperCaseLetters == { SubSeq(UpperCase, i, i) : i \in 1..Len(UpperCase) }

LowerCaseOf ==
    [ c \in UpperCaseLetters |->
        LET i == FindFrom(UpperCase, c, 1) IN SubSeq(LowerCase, i, i) ]

\* str.casefold() of the characters a string of this module can hold.
RECURSIVE casefold(_)
casefold(s) ==
    IF Len(s) = 0 THEN ""
    ELSE LET c == SubSeq(s, 1, 1)
         IN  (IF c \in UpperCaseLetters THEN LowerCaseOf[c] ELSE c)
             \o casefold(SubSeq(s, 2, Len(s)))

\* s.replace(old, new) for a non-empty old.
replace(s, old, new) == Join(new, Split(s, old))

makeStringSearchable(string) ==
    replace(replace(replace(string, BLACK_CIRCLE, "*"), WHITE_CIRCLE, ""),
            ELEMENT_CLASSES[Len(ELEMENT_CLASSES)], "*")

\* The item appendToIndex builds.
IndexedItem(sort_key, displayed_text, search_suggestion, extra_info) ==
    [ sort_key          |-> casefold(sort_key),
      displayed_text    |-> replace(displayed_text, "\n", " "),
      string_to_search  |-> makeStringSearchable(casefold(sort_key)
                                                 \o casefold(displayed_text)
                                                 \o casefold(extra_info)),
      search_suggestion |-> search_suggestion ]

SearchCache_appendToIndex(cache, sort_key, displayed_text, search_suggestion, extra_info) ==
    Append(cache, IndexedItem(sort_key, displayed_text, search_suggestion, extra_info))

\* "substring in string"
In(substring, string) == FindFrom(string, substring, 1) > 0

\* The loop of searchSubstrings over substring_list[k ..].
RECURSIVE searchLoop(_, _, _)
searchLoop(matches, substring_list, k) ==
    IF k > Len(substring_list) THEN matches
    ELSE searchLoop(SelectSeq(matches,
                              LAMBDA item : In(substring_list[k], item.string_to_search)),
                    substring_list, k + 1)

\* searchSubstrings that compares the substrings as they were typed.
SearchCache_searchSubstrings_caseSensitive(cache, substring_list) ==
    LET matches == searchLoop(cache, substring_list, 1)
    IN  [ i \in 1..Len(matches) |->
            << matches[i].displayed_text, matches[i].search_suggestion >> ]

SearchCache_searchSubstrings(cache, substring_list) ==
    LET folded  == [ i \in 1..Len(substring_list) |-> casefold(substring_list[i]) ]
        matches == searchLoop(cache, folded, 1)
    IN  [ i \in 1..Len(matches) |->
            << matches[i].displayed_text, matches[i].search_suggestion >> ]

\* The characters of a string of this module in the order of their code points.
CodePoints ==
    "\t\n\f\r !\"#$%&'()*+,-./0123456789:;<=>?@ABCDEFGHIJKLMNOPQRSTUVWXYZ[\\]^_"
        \o Backtick \o "abcdefghijklmnopqrstuvwxyz{|}~"

\* a < b of two strings.
RECURSIVE StrLess(_, _)
StrLess(a, b) ==
    IF Len(b) = 0 THEN FALSE
    ELSE IF Len(a) = 0 THEN TRUE
    ELSE IF SubSeq(a, 1, 1) = SubSeq(b, 1, 1)
    THEN StrLess(SubSeq(a, 2, Len(a)), SubSeq(b, 2, Len(b)))
    ELSE FindFrom(CodePoints, SubSeq(a, 1, 1), 1) < FindFrom(CodePoints, SubSeq(b, 1, 1), 1)

\* The item put behind the items of a sorted list whose key is not above its own.
InsertSorted(sorted, item) ==
    LET above == { i \in 1..Len(sorted) : StrLess(item.sort_key, sorted[i].sort_key) }
        n     == IF above = {} THEN Len(sorted)
                 ELSE (CHOOSE i \in above : \A j \in above : i <= j) - 1
    IN  SubSeq(sorted, 1, n) \o << item >> \o SubSeq(sorted, n + 1, Len(sorted))

\* list.sort(key = sort_key): ascending and stable.
RECURSIVE SortFrom(_, _, _)
SortFrom(sorted, cache, k) ==
    IF k > Len(cache) THEN sorted
    ELSE SortFrom(InsertSorted(sorted, cache[k]), cache, k + 1)

SearchCache_sort(cache) == SortFrom(<< >>, cache, 1)

SearchCache_reset(cache) == << >>

SearchCache_appendOtherCache(cache, other_cache) == cache \o other_cache

(***************************************************************************)
(* State                                                                   *)
(***************************************************************************)

\* How many times the user replaces the text of a code box.
MaxEdits == 2

\* How many saves reach the commit.
MaxCommits == 2

VARIABLES
    pc,          \* "source", "compiled", "reformatted", "stored", "loaded" or "editor"
    source,      \* the lines of words the user typed (of a source input)
    script,      \* the text of the code box, the argument of compile
    compiled,    \* the value compile returned
    packed,      \* the packed text, the argument of decompile
    decompiled,  \* the value decompile returned
    sql_connection,  \* the database
    container,   \* EditorViewContainer: current_frame_pair, save_button, edit_label
    item_view,   \* ItemEditorView: current_item_uid, code_box
    npc_view,    \* NPCEditorView: current_npc_uid, name_uid_suffix, name_combobox, code_boxes
    log,         \* what the handlers did: SQL updates, commits, callbacks, edits,
                 \* and the value or exception of the last view method called
    loop,        \* the loop of decompile: result, indentation, whether a line
                 \* raised, and the number k of the next line
    tables,      \* the command tables while the module is loaded: the items of
                 \* the literal, SCRIPT_COMMANDS, REVERSE_SCRIPT_COMMANDS as far as
                 \* built, the number k of items done, and "loading" or "loaded"
    search       \* the two SearchCache objects of the search view (db_cache and
                 \* npc_cache), the items of db_cache in the order they were put
                 \* into it, the method called last, and the argument and the
                 \* result of searchSubstrings when that was the one

editor == << container, item_view, npc_view, log, search >>

vars == << pc, source, script, compiled, packed, decompiled, sql_connection, editor,
           loop, tables >>

NotCompiled == << FALSE, << >> >>

\* The command tables once the module is loaded.
TablesLoaded ==
    [items |-> SCRIPT_COMMANDS_items, commands |-> SCRIPT_COMMANDS,
     reverse |-> REVERSE_SCRIPT_COMMANDS, k |-> Len(SCRIPT_COMMANDS_items),
     at |-> "loaded"]

\* decompile before its loop: "result = ''", "indentation = 0", the first line next.
DecompileStart ==
    [acc |-> [result |-> "", indentation |-> 0, raised |-> FALSE], k |-> 1]

\* The caches as constructed: "self.cache = []"; nothing has been searched.
SearchConstructed ==
    [db_cache |-> << >>, npc_cache |-> << >>, inserted |-> << >>,
     called |-> "__init__", substring_list |-> << >>, returned |-> << >>]

\* The editor as constructed: the introduction frame is shown, the save button is
\* disabled, no entry is being edited.
EditorConstructed ==
    /\ container = [current_frame_pair |-> "IntroductionFrame",
                    save_button |-> "disabled", edit_label |-> ""]
    /\ item_view = [current_item_uid |-> None, code_box |-> ""]
    /\ npc_view = [current_npc_uid |-> None, name_uid_suffix |-> None,
                   name_combobox |-> "",
                   code_boxes |-> [ n \in { code_box_names[k] : k \in 1..5 } |-> "" ]]
    /\ log = [sql_updates |-> 0, commits |-> 0, callbacks |-> 0, edits |-> 0,
              returned |-> None]
    /\ search = SearchConstructed

\* The user has typed a script into the code box.
Init ==
    /\ pc = "source"
    /\ sql_connection \in Databases
    /\ source \in Sources
    /\ script = SourceText(source)
    /\ compiled = NotCompiled
    /\ packed = ""
    /\ decompiled = Returned("")
    /\ EditorConstructed
    /\ loop = DecompileStart
    /\ tables = TablesLoaded

\* compile(script), as writeChangesToDatabase calls it on the code box content.
Compile ==
    /\ pc = "source"
    /\ compiled' = compile(script)
    /\ pc' = "compiled"
    /\ UNCHANGED << source, script, packed, decompiled, sql_connection, editor, loop, tables >>

\* decompile(sql_connection, compiled_script) after a successful compile.
Reformat ==
    /\ pc = "compiled"
    /\ compiled[1] = TRUE
    /\ packed' = compiled[2]
    /\ decompiled' = decompile(sql_connection, compiled[2])
    /\ pc' = "reformatted"
    /\ UNCHANGED << source, script, compiled, sql_connection, editor, loop, tables >>

Next == Compile \/ Reformat

Spec == Init /\ [][Next]_vars

\* A packed script is stored in the database.
InitStored ==
    /\ pc = "stored"
    /\ sql_connection \in Databases
    /\ source = << >>
    /\ script = ""
    /\ compiled = NotCompiled
    /\ packed \in PackedTexts
    /\ decompiled = Returned("")
    /\ EditorConstructed
    /\ loop = DecompileStart
    /\ tables = TablesLoaded

\* decompile(sql_connection, script) of a stored script, as setupEditForID calls it.
Load ==
    /\ pc = "stored"
    /\ decompiled' = decompile(sql_connection, packed)
    /\ pc' = "loaded"
    /\ UNCHANGED << source, script, compiled, packed, sql_connection, editor, loop, tables >>

NextStored == Load

SpecStored == InitStored /\ [][NextStored]_vars

(***************************************************************************)
(* The command tables are built when the module is loaded                  *)
(***************************************************************************)

\* The literal of SCRIPT_COMMANDS with one more opcode for a mnemonic it holds.
SCRIPT_COMMANDS_items_withTwin == Append(SCRIPT_COMMANDS_items, << "~", "else" >>)

\* The literals the tables are built from: the one of the source, the one with a
\* second opcode for else, and a small one with two opcodes for one mnemonic.
\* No literal holds a key twice, so the items of the dictionary are its items.
CommandLiterals ==
    { SCRIPT_COMMANDS_items, SCRIPT_COMMANDS_items_withTwin,
      << << "a", "x" >>, << "b", "y" >>, << "c", "x" >> >> }

\* "REVERSE_SCRIPT_COMMANDS = {}"
EmptyDict == [ key \in {} |-> "" ]

\* Mutant of SetReverse: key and value are not swapped.
SetReverse_unswapped(reverse, key, value) ==
    [ m \in DOMAIN reverse \cup {key} |-> IF m = key THEN value ELSE reverse[m] ]

\* "REVERSE_SCRIPT_COMMANDS[value] = key"
SetReverse(reverse, key, value) ==
    [ m \in DOMAIN reverse \cup {value} |-> IF m = value THEN key ELSE reverse[m] ]

InitLoad ==
    /\ pc = "loading"
    /\ sql_connection = EmptyDB
    /\ source = << >>
    /\ script = ""
    /\ compiled = NotCompiled
    /\ packed = ""
    /\ decompiled = Returned("")
    /\ EditorConstructed
    /\ loop = DecompileStart
    /\ \E items \in CommandLiterals :
           tables = [items |-> items, commands |-> DictOfItems(items),
                     reverse |-> EmptyDict, k |-> 0, at |-> "loading"]

\* One iteration of "for key, value in SCRIPT_COMMANDS.items()".
ReverseItem ==
    /\ pc = "loading"
    /\ tables.at = "loading"
    /\ tables.k < Len(tables.items)
    /\ tables' = [tables EXCEPT
                    !.reverse = SetReverse(@, tables.items[tables.k + 1][1],
                                           tables.commands[tables.items[tables.k + 1][1]]),
                    !.k = @ + 1]
    /\ UNCHANGED << pc, source, script, compiled, packed, decompiled,
                    sql_connection, editor, loop >>

\* The loop is over: the module goes on loading with the tables as they are.
ReverseDone ==
    /\ pc = "loading"
    /\ tables.at = "loading"
    /\ tables.k = Len(tables.items)
    /\ tables' = [tables EXCEPT !.at = "loaded"]
    /\ UNCHANGED << pc, source, script, compiled, packed, decompiled,
                    sql_connection, editor, loop >>

NextLoad == ReverseItem \/ ReverseDone

SpecLoad == InitLoad /\ [][NextLoad]_vars

(***************************************************************************)
(* decompile, one line of its loop at a time                               *)
(***************************************************************************)

\* Longest packed text, in lines, whose decompile is followed line by line.
MaxBlockLines == 4

\* The lines of these texts: blank, endIf, else, an if with its argument, an
\* unknown opcode between spaces, an endIf between spaces, a say without its
\* arguments.
BlockLines == { "", "7", "8", "=.1", " zz.1 ", " 7 ", "!" }

BlockTexts == { Join("\n", ls) : ls \in SeqsBetween(BlockLines, 1, MaxBlockLines) }

\* "script.split('\n')" of the text being decompiled.
PackedLinesOf(text) == Split(text, "\n")

InitLoop ==
    /\ pc = "decompiling"
    /\ sql_connection = SampleDB
    /\ source = << >>
    /\ script = ""
    /\ compiled = NotCompiled
    /\ packed \in BlockTexts
    /\ decompiled = Returned("")
    /\ EditorConstructed
    /\ loop = DecompileStart
    /\ tables = TablesLoaded

\* One iteration of "for line in script.split('\n')".
DecompileLine ==
    /\ pc = "decompiling"
    /\ loop.k <= Len(PackedLinesOf(packed))
    /\ ~loop.acc.raised
    /\ loop' = [acc |-> decompileLine(loop.acc, PackedLinesOf(packed)[loop.k],
                                       sql_connection),
                 k |-> loop.k + 1]
    /\ UNCHANGED << pc, source, script, compiled, packed, decompiled,
                    sql_connection, editor, tables >>

\* The loop is over, "return result", or a line raised and decompile ends with
\* the exception.
DecompileReturn ==
    /\ pc = "decompiling"
    /\ loop.k > Len(PackedLinesOf(packed)) \/ loop.acc.raised
    /\ decompiled' = IF loop.acc.raised THEN IndexError ELSE Returned(loop.acc.result)
    /\ pc' = "loaded"
    /\ UNCHANGED << source, script, compiled, packed, sql_connection, editor, loop, tables >>

NextLoop == DecompileLine \/ DecompileReturn

SpecLoop == InitLoop /\ [][NextLoop]_vars

(***************************************************************************)
(* Calls of compile and decompile, one after the other                     *)
(***************************************************************************)

\* The packed texts decompile is called with: blocks left open, a line that
\* closes a block, a line that raises.
CallTexts == { "", "=.1", "=.1\n=.1", "7", "8", "!" }

\* The scripts compile is called with.
CallScripts == { "", "else", "foo", "ifTriggerIsActive 1", "endIf // done" }

\* The locals of a call that carries the indentation over from the call before.
EnterDecompile_keepingIndentation(previous) ==
    [acc |-> [result |-> "", indentation |-> previous.acc.indentation, raised |-> FALSE],
     k |-> 1]

\* The locals of decompile when a call begins: "result = ''" and
\* "indentation = 0", whatever the locals of the call before held.
EnterDecompile(previous) == DecompileStart

InitCalls ==
    /\ pc = "idle"
    /\ sql_connection = SampleDB
    /\ source = << >>
    /\ script = ""
    /\ compiled = NotCompiled
    /\ packed = ""
    /\ decompiled = Returned("")
    /\ EditorConstructed
    /\ loop = DecompileStart
    /\ tables = TablesLoaded

\* decompile(sql_connection, text) is called: no call is in progress.
CallDecompile ==
    /\ pc \in { "idle", "loaded", "compiled" }
    /\ \E text \in CallTexts : packed' = text
    /\ loop' = EnterDecompile(loop)
    /\ pc' = "decompiling"
    /\ UNCHANGED << source, script, compiled, decompiled, sql_connection, editor, tables >>

\* compile(text) is called and returns.
CallCompile ==
    /\ pc \in { "idle", "loaded", "compiled" }
    /\ \E text \in CallScripts :
          /\ script' = text
          /\ compiled' = compile(text)
    /\ pc' = "compiled"
    /\ UNCHANGED << source, packed, decompiled, sql_connection, editor, loop, tables >>

NextCalls == CallDecompile \/ DecompileLine \/ DecompileReturn \/ CallCompile

SpecCalls == InitCalls /\ [][NextCalls]_vars

(***************************************************************************)
(* The search caches are filled, sorted, joined, emptied and searched      *)
(***************************************************************************)

\* The longest db_cache; npc_cache holds one item less.
MaxCache == 2

\* The entries put into a cache: sort key, displayed text, search suggestion,
\* extra information.  Two sort keys differ in case only, one text holds a
\* newline, one extra information a black circle.
IndexEntries ==
    { << "Rafi", "NPC(7) Rafi", "Rafi", "talk 1" >>,
      << "Amulet", "Item\nAmulet", "A04", "Jump(" \o BLACK_CIRCLE \o ")" >>,
      << "rafi", "String(S1) rafi", "S1", "" >> }

\* The lists of substrings searched for: none, one in capitals, the same two
\* in either order, the character the black circle is indexed as.
SubstringLists ==
    { << >>, << "RAFI" >>, << "npc", "RAFI" >>, << "RAFI", "npc" >>, << "*" >>,
      << "item", "" >> }

CacheNames == { "db_cache", "npc_cache" }

InitSearch ==
    /\ pc = "searching"
    /\ sql_connection = EmptyDB
    /\ source = << >>
    /\ script = ""
    /\ compiled = NotCompiled
    /\ packed = ""
    /\ decompiled = Returned("")
    /\ EditorConstructed
    /\ loop = DecompileStart
    /\ tables = TablesLoaded

unchanged_by_search ==
    << source, script, compiled, packed, decompiled, sql_connection, container, item_view,
       npc_view, log, loop, tables >>

\* What a call of a cache leaves of the search: the new list of the cache, and
\* for db_cache the new order of insertion; a call other than searchSubstrings
\* returns nothing.
CacheCalled(method, name, cache, inserted) ==
    /\ pc = "searching"
    /\ search' = [search EXCEPT
                    ![name] = cache,
                    !.inserted = IF name = "db_cache" THEN inserted ELSE @,
                    !.called = method,
                    !.substring_list = << >>,
                    !.returned = << >>]
    /\ UNCHANGED << pc, unchanged_by_search >>

\* cache.appendToIndex(sort_key, displayed_text, search_suggestion, extra_info)
AppendToIndex(name, entry) ==
    /\ Len(search[name]) < (IF name = "db_cache" THEN MaxCache ELSE MaxCache - 1)
    /\ CacheCalled("appendToIndex", name,
                   SearchCache_appendToIndex(search[name], entry[1], entry[2], entry[3],
                                             entry[4]),
                   Append(search.inserted,
                          IndexedItem(entry[1], entry[2], entry[3], entry[4])))

\* cache.sort()
SortCache(name) ==
    CacheCalled("sort", name, SearchCache_sort(search[name]), search.inserted)

\* cache.reset()
ResetCache(name) ==
    CacheCalled("reset", name, SearchCache_reset(search[name]), << >>)

\* db_cache.appendOtherCache(npc_cache)
AppendOtherCache ==
    /\ Len(search.db_cache) + Len(search.npc_cache) <= MaxCache
    /\ CacheCalled("appendOtherCache", "db_cache",
                   SearchCache_appendOtherCache(search.db_cache, search.npc_cache),
                   search.inserted \o search.npc_cache)

\* db_cache.searchSubstrings(substring_list)
SearchSubstrings(substring_list) ==
    /\ pc = "searching"
    /\ search' = [search EXCEPT
                    !.called = "searchSubstrings",
                    !.substring_list = substring_list,
                    !.returned = SearchCache_searchSubstrings(search.db_cache,
                                                              substring_list)]
    /\ UNCHANGED << pc, unchanged_by_search >>

NextSearch ==
    \/ \E name \in CacheNames, entry \in IndexEntries : AppendToIndex(name, entry)
    \/ \E name \in CacheNames : SortCache(name)
    \/ \E name \in CacheNames : ResetCache(name)
    \/ AppendOtherCache
    \/ \E substring_list \in SubstringLists : SearchSubstrings(substring_list)

SpecSearch == InitSearch /\ [][NextSearch]_vars

(***************************************************************************)
(* The editor: entries are opened, code boxes edited, changes saved          *)
(***************************************************************************)

\* The entries the user opens: an item and an NPC of the database, and one of each
\* that the database does not hold.
EntryIds == [ Item |-> {"0", "9"}, NPC |-> {"B05", "B99"} ]

\* The texts the user types into a code box: one compiles, one does not.
TypedScripts == { "else", "foo" }

InitEditor ==
    /\ pc = "editor"
    /\ sql_connection = SampleDB
    /\ source = << >>
    /\ script = ""
    /\ compiled = NotCompiled
    /\ packed = ""
    /\ decompiled = Returned("")
    /\ EditorConstructed
    /\ loop = DecompileStart
    /\ tables = TablesLoaded

unchanged_pipeline == << pc, source, script, compiled, packed, decompiled, loop,
                        tables, search >>

\* EditorViewContainer.startEditing, given what setupEditForID of the view did.
\* An exception of setupEditForID leaves the method before the save button, the
\* label and the frame shown are touched.
EditorViewContainer_startEditing(entry_type, entry_id, setup) ==
        /\ pc = "editor"
        /\ item_view' = IF entry_type = "Item" THEN setup.view ELSE item_view
        /\ npc_view' = IF entry_type = "NPC" THEN setup.view ELSE npc_view
        /\ log' = [log EXCEPT !.returned = setup.returned]
        /\ container' =
             IF setup.returned = "True"
             THEN [current_frame_pair |-> entry_type, save_button |-> "normal",
                   edit_label |-> entry_type \o "(" \o entry_id \o ") "]
             ELSE IF setup.returned = "False"
             THEN [current_frame_pair |-> "IntroductionFrame",
                   save_button |-> "disabled", edit_label |-> ""]
             ELSE container
        /\ UNCHANGED << sql_connection, unchanged_pipeline >>

\* The user opens an item or an NPC: EditorViewContainer.startEditing(entry_type,
\* entry_id).
StartEditing(entry_type, entry_id) ==
    EditorViewContainer_startEditing(
        entry_type, entry_id,
        IF entry_type = "Item"
        THEN ItemEditorView_setupEditForID(sql_connection, entry_id)
        ELSE NPCEditorView_setupEditForID(npc_view, sql_connection, entry_id))

\* EditorViewContainer.startEditing('IntroductionFrame', ...)
ShowIntroduction ==
    /\ pc = "editor"
    /\ container' = [current_frame_pair |-> "IntroductionFrame",
                     save_button |-> "disabled", edit_label |-> ""]
    /\ UNCHANGED << item_view, npc_view, log, sql_connection, unchanged_pipeline >>

\* The user replaces the text of the code box of the item shown.
TypeItemScript(text) ==
    /\ pc = "editor"
    /\ container.current_frame_pair = "Item"
    /\ log.edits < MaxEdits
    /\ item_view' = [item_view EXCEPT !.code_box = text]
    /\ log' = [log EXCEPT !.edits = @ + 1]
    /\ UNCHANGED << container, npc_view, sql_connection, unchanged_pipeline >>

\* The user replaces the text of one of the code boxes of the NPC shown.
TypeNpcScript(name, text) ==
    /\ pc = "editor"
    /\ container.current_frame_pair = "NPC"
    /\ log.edits < MaxEdits
    /\ npc_view' = [npc_view EXCEPT !.code_boxes[name] = text]
    /\ log' = [log EXCEPT !.edits = @ + 1]
    /\ UNCHANGED << container, item_view, sql_connection, unchanged_pipeline >>

\* Mutant of WriteFailed: only None is taken for a failure.
WriteFailed_onlyNone(write_result) == write_result = None

\* "if write_result is False or write_result is None"
WriteFailed(write_result) == write_result = "False" \/ write_result = None

\* EditorViewContainer.writeChangesToDatabase, given what writeChangesToDatabase
\* of the view shown did: an exception or a failure ends it before the commit,
\* the callback and the new label.
EditorViewContainer_writeChangesToDatabase(written, raised, failed) ==
        /\ item_view' = IF container.current_frame_pair = "Item"
                        THEN written.view ELSE item_view
        /\ npc_view' = IF container.current_frame_pair = "NPC"
                       THEN written.view ELSE npc_view
        /\ sql_connection' = written.sql
        /\ log' = [log EXCEPT
                     !.sql_updates = @ + written.updates,
                     !.commits = IF raised \/ failed THEN @ ELSE @ + 1,
                     !.callbacks = IF raised \/ failed THEN @ ELSE @ + 1,
                     !.returned = written.returned]
        /\ container' =
             IF raised \/ failed \/ written.returned = "True" THEN container
             ELSE [container EXCEPT !.edit_label = written.returned]
        /\ UNCHANGED unchanged_pipeline

\* The writeChangesToDatabase of the view shown.
ViewWriteChangesToDatabase ==
    IF container.current_frame_pair = "Item"
    THEN ItemEditorView_writeChangesToDatabase(item_view, sql_connection)
    ELSE NPCEditorView_writeChangesToDatabase(npc_view, sql_connection)

\* EditorViewContainer.writeChangesToDatabase, given what the view did.
EditorViewContainer_written(written) ==
    EditorViewContainer_writeChangesToDatabase(
        written, written.returned = "IndexError", WriteFailed(written.returned))

\* The save button: pressSaveButton.  The button does nothing while it is
\* disabled.
Save ==
    /\ pc = "editor"
    /\ container.save_button = "normal"
    /\ container.current_frame_pair # "IntroductionFrame"
    /\ log.commits < MaxCommits
    /\ EditorViewContainer_written(ViewWriteChangesToDatabase)

NextEditor ==
    \/ \E entry_type \in DOMAIN EntryIds :
           \E entry_id \in EntryIds[entry_type] : StartEditing(entry_type, entry_id)
    \/ ShowIntroduction
    \/ \E text \in TypedScripts : TypeItemScript(text)
    \/ \E k \in 1..Len(code_box_names), text \in TypedScripts :
           TypeNpcScript(code_box_names[k], text)
    \/ Save

SpecEditor == InitEditor /\ [][NextEditor]_vars

(***************************************************************************)
(* What the typed words say, independently of the text compile reads       *)
(***************************************************************************)

\* A token as the specification means it: not empty, no whitespace character.
IsToken(word) ==
    /\ word # ""
    /\ \A i \in 1..Len(word) : SubSeq(word, i, i) \notin Whitespace

HasComment(word) == FindFrom(word, "//", 1) > 0

\* The words in front of the first '//' of a typed line that are not empty.
RECURSIVE TypedTokens(_)
TypedTokens(words) ==
    IF Len(words) = 0 THEN << >>
    ELSE LET w == Head(words)
             c == FindFrom(w, "//", 1)
         IN  IF c > 1 THEN << SubSeq(w, 1, c - 1) >>
             ELSE IF c = 1 THEN << >>
             ELSE IF w = "" THEN TypedTokens(Tail(words))
             ELSE << w >> \o TypedTokens(Tail(words))

\* The source is the single line  m t1 ... tn  with m a mnemonic of arity n.
IsSingleCommand(src) ==
    /\ Len(src) = 1
    /\ Len(src[1]) >= 1
    /\ src[1][1] \in KnownMnemonics
    /\ Len(src[1]) - 1 = Arity(src[1][1])
    /\ \A k \in 2..Len(src[1]) : IsToken(src[1][k])

\* The opcode of a mnemonic, read off the forward table.
OpcodeOf(m) == CHOOSE o \in KnownOpcodes : SCRIPT_COMMANDS[o] = m

(***************************************************************************)
(* Claims                                                                  *)
(***************************************************************************)

\* C1, as stated: for every mnemonic m with a parameter list of length n and every
\* n non-whitespace tokens, compile of "m t1 ... tn" returns
\* [True, opcode + '.' + t1 + '.' + ... + tn + '\n'].
C1_AnyTokens ==
    (/\ pc # "source"
     /\ IsSingleCommand(source)
     /\ source[1][1] \in DOMAIN script_command_parameters)
    => compiled = << TRUE, OpcodeOf(source[1][1]) \o "." \o Join(".", Tail(source[1])) \o "\n" >>

\* C1, amended: the same, for tokens none of which contains '//'.
C1_TokensWithoutComment ==
    (/\ pc # "source"
     /\ IsSingleCommand(source)
     /\ source[1][1] \in DOMAIN script_command_parameters
     /\ \A k \in 2..Len(source[1]) : ~HasComment(source[1][k]))
    => compiled = << TRUE, OpcodeOf(source[1][1]) \o "." \o Join(".", Tail(source[1])) \o "\n" >>

\* A command of three parameters compiled with three tokens, one of them holding a '.'.
C1_Witness ==
    /\ pc = "compiled"
    /\ IsSingleCommand(source)
    /\ Arity(source[1][1]) = 3
    /\ \A k \in 2..Len(source[1]) : ~HasComment(source[1][k])
    /\ \E k \in 2..Len(source[1]) : FindFrom(source[1][k], ".", 1) > 0
    /\ compiled[1] = TRUE

\* C2: for every mnemonic m absent from script_command_parameters, compile(m)
\* returns [True, o + '\n'] with o the single opcode character of m.
C2_ZeroArity ==
    (/\ pc # "source"
     /\ Len(source) = 1
     /\ Len(source[1]) = 1
     /\ source[1][1] \in KnownMnemonics \ DOMAIN script_command_parameters)
    => /\ Len(OpcodeOf(source[1][1])) = 1
       /\ compiled = << TRUE, OpcodeOf(source[1][1]) \o "\n" >>

\* catchWizform, whose opcode is '.', compiled alone.
C2_Witness ==
    /\ pc = "compiled"
    /\ source = << << "catchWizform" >> >>
    /\ compiled = << TRUE, ".\n" >>

\* The words of a decompiled line in front of its comment.
ShownWords(line) == splitByWhitespace(Split(line, "//")[1])

\* The lines of a text that ends with a newline, without the empty piece after it.
ShownLines(text) ==
    LET pieces == Split(text, "\n")
    IN  SubSeq(pieces, 1, Len(pieces) - 1)

\* Every line of the source is  m t1 ... tn  with m a mnemonic of arity n and
\* tokens that hold neither a '.' nor a '//'.
IsWellFormedScript(src) ==
    \A i \in 1..Len(src) :
        /\ Len(src[i]) >= 1
        /\ src[i][1] \in KnownMnemonics
        /\ Len(src[i]) - 1 = Arity(src[i][1])
        /\ \A k \in 2..Len(src[i]) :
               /\ IsToken(src[i][k])
               /\ ~HasComment(src[i][k])
               /\ FindFrom(src[i][k], ".", 1) = 0

\* C3: round trip.  For a script made only of lines 'mnemonic + correct-arity
\* tokens', compile succeeds and decompile of the packed text shows, line by
\* line and in order, the same mnemonic followed by the same tokens, and then
\* one final empty line.
C3_RoundTrip ==
    (pc = "reformatted" /\ IsWellFormedScript(source))
    => /\ compiled[1] = TRUE
       /\ ~decompiled.raised
       /\ LET shown == ShownLines(decompiled.value)
          IN  /\ Len(shown) = Len(source) + 1
              /\ shown[Len(shown)] = ""
              /\ \A i \in 1..Len(source) : ShownWords(shown[i]) = source[i]

\* C4: decompile is total.  For every packed text, also with fewer or more
\* arguments than the arity of its command, decompile returns a string.
C4_DecompileTotal ==
    pc = "loaded" => ~decompiled.raised

\* A typed line that is in error: its first token is no mnemonic, or the number of
\* tokens after it is not the arity of the mnemonic.
IsErroneousLine(words) ==
    LET tokens == TypedTokens(words)
    IN  /\ Len(tokens) > 0
        /\ \/ tokens[1] \notin KnownMnemonics
           \/ Len(tokens) - 1 # Arity(tokens[1])

\* The 1-based numbers of the erroneous lines of a source.
ErroneousLines(src) == { k \in 1..Len(src) : IsErroneousLine(src[k]) }

\* The j-th smallest element of a set of numbers.
NthOf(S, j) == CHOOSE k \in S : Cardinality({ x \in S : x <= k }) = j

\* The decimal numeral of a number below ten, as written in a message.
Numeral(n) == SubSeq("0123456789", n + 1, n + 1)

\* C5: compile never short-circuits.  Every erroneous line contributes exactly
\* one error, the errors are in ascending line order, each begins with
\* 'Line k: ' for the 1-based number k of its line, and an unknown first token
\* gives 'Unknown command: <token>'.
C5_AllErrorsInOrder ==
    (pc # "source" /\ ErroneousLines(source) # {})
    => LET bad == ErroneousLines(source)
       IN  /\ compiled[1] = FALSE
           /\ Len(compiled[2]) = Cardinality(bad)
           /\ \A j \in 1..Cardinality(bad) :
                  LET k      == NthOf(bad, j)
                      tokens == TypedTokens(source[k])
                  IN  /\ StartsWith(compiled[2][j], "Line " \o Numeral(k) \o ": ")
                      /\ tokens[1] \notin KnownMnemonics
                         => compiled[2][j] =
                                "Line " \o Numeral(k) \o ": Unknown command: " \o tokens[1]

\* Two unknown first tokens on two lines that are not neighbours: two errors.
C5_Witness ==
    /\ pc = "compiled"
    /\ Len(source) = 3
    /\ ErroneousLines(source) = {1, 3}
    /\ compiled = << FALSE, << "Line 1: Unknown command: foo",
                               "Line 3: Unknown command: foo" >> >>

\* C6: arity check.  A line whose mnemonic has a parameter list of length n and
\* a different number of tokens after it gives exactly one error
\* 'Command <m> takes exactly <n> arguments: <names>'; a line whose mnemonic has
\* no parameter list and a token after it gives exactly one error
\* 'Command takes no arguments: <m>'; no packed text is returned.
C6_ArityErrors ==
    pc # "source"
    => LET bad == ErroneousLines(source)
       IN  \A j \in 1..Cardinality(bad) :
               LET k      == NthOf(bad, j)
                   tokens == TypedTokens(source[k])
                   m      == tokens[1]
               IN  m \in KnownMnemonics
                   => /\ compiled[1] = FALSE
                      /\ Len(compiled[2]) = Cardinality(bad)
                      /\ compiled[2][j] =
                           IF m \in DOMAIN script_command_parameters
                           THEN "Line " \o Numeral(k) \o ": Command " \o m
                                \o " takes exactly " \o Numeral(Arity(m))
                                \o " arguments: "
                                \o Join(", ", script_command_parameters[m])
                           ELSE "Line " \o Numeral(k)
                                \o ": Command takes no arguments: " \o m

\* A command of two parameters given three tokens, and a command without
\* parameters given one.
C6_Witness ==
    /\ pc = "compiled"
    /\ \/ /\ source = << << "say", "1", "1", "1" >> >>
          /\ compiled = << FALSE,
               << "Line 1: Command say takes exactly 2 arguments: dialogUid, silent" >> >>
       \/ /\ source = << << "endIf", "1" >> >>
          /\ compiled = << FALSE, << "Line 1: Command takes no arguments: endIf" >> >>

\* C7: compile returns [False, errors] with a non-empty list of errors if and
\* only if a line is erroneous, and [True, packed text] otherwise.
C7_ErrorsOrText ==
    pc # "source"
    => /\ Len(compiled) = 2
       /\ IF ErroneousLines(source) # {}
          THEN /\ compiled[1] = FALSE
               /\ Len(compiled[2]) >= 1
               /\ \A j \in 1..Len(compiled[2]) : StartsWith(compiled[2][j], "Line ")
          ELSE /\ compiled[1] = TRUE
               /\ SubSeq(compiled[2], Len(compiled[2]), Len(compiled[2])) = "\n"

\* A script of a good line and an erroneous line: the errors, and no text.
C7_Witness ==
    /\ pc = "compiled"
    /\ Len(source) >= 2
    /\ ErroneousLines(source) = {2}
    /\ TypedTokens(source[1]) # << >>
    /\ compiled[1] = FALSE

\* Every script of the view shown compiles: the script of the item, or all five
\* scripts of the NPC.
EditedScriptsCompile ==
    IF container.current_frame_pair = "Item"
    THEN compile(item_view.code_box)[1]
    ELSE \A k \in 1..Len(code_box_names) :
             compile(npc_view.code_boxes[code_box_names[k]])[1]

\* C8: persistence gating.  A step of the editor executes an SQL update, commits,
\* calls the after-update callback or changes a stored row only when every
\* script of the view shown compiles; for an NPC that is all five scripts.
C8_PersistenceGated ==
    [][ (\/ log'.sql_updates # log.sql_updates
         \/ log'.commits # log.commits
         \/ log'.callbacks # log.callbacks
         \/ sql_connection' # sql_connection)
        => EditedScriptsCompile ]_vars

\* An NPC saved with a second script that compiles and a fifth that does not:
\* the save returned False, nothing was written or committed.
C8_Witness ==
    /\ pc = "editor"
    /\ container.current_frame_pair = "NPC"
    /\ log.returned = "False"
    /\ npc_view.current_npc_uid = "B05"
    /\ npc_view.code_boxes["Update"] = "else"
    /\ npc_view.code_boxes["Defeated"] = "foo"
    /\ compile(npc_view.code_boxes["Init"])[1]
    /\ log.sql_updates = 0
    /\ log.commits = 0
    /\ log.callbacks = 0
    /\ sql_connection = SampleDB

\* The packed line of the tokens of a well-formed line.
EmittedLine(tokens) ==
    OpcodeOf(tokens[1])
    \o (IF Len(tokens) > 1 THEN "." \o Join(".", Tail(tokens)) ELSE "")

\* The packed lines of the lines of a source that hold a token, in order.
RECURSIVE EmittedLines(_)
EmittedLines(src) ==
    IF Len(src) = 0 THEN << >>
    ELSE IF TypedTokens(Head(src)) = << >> THEN EmittedLines(Tail(src))
    ELSE << EmittedLine(TypedTokens(Head(src))) >> \o EmittedLines(Tail(src))

\* C9: line joining.  The packed text of a successful compile is the emitted
\* command lines joined by single newlines, followed by one final newline;
\* blank and comment-only lines emit nothing, wherever they occur.
C9_CommandLinesJoined ==
    (pc # "source" /\ compiled[1] = TRUE)
    => compiled[2] = Join("\n", EmittedLines(source)) \o "\n"

\* C10: the packed text of a successful compile ends with exactly one newline:
\* it is "\n" alone when the input holds no command, and compile('') = "\n".
C10_OneFinalNewline ==
    (pc # "source" /\ compiled[1] = TRUE)
    => LET text == compiled[2]
           n    == Len(text)
       IN  /\ n >= 1
           /\ SubSeq(text, n, n) = "\n"
           /\ IF EmittedLines(source) = << >>
              THEN text = "\n"
              ELSE n >= 2 /\ SubSeq(text, n - 1, n - 1) # "\n"

\* The empty script, and a script whose last command is followed by blank lines.
C10_Witness ==
    /\ pc = "compiled"
    /\ \/ script = "" /\ compiled = << TRUE, "\n" >>
       \/ /\ Len(source) = 3
          /\ EmittedLines(source) # << >>
          /\ TypedTokens(source[2]) = << >>
          /\ TypedTokens(source[3]) = << >>
          /\ compiled[1] = TRUE

\* The arguments of a packed line as decompile prints them: each preceded by a
\* single space.
RECURSIVE SpacedArguments(_)
SpacedArguments(args) ==
    IF Len(args) = 0 THEN "" ELSE " " \o Head(args) \o SpacedArguments(Tail(args))

\* The packed text is the single line  o.arg1...argn  and what decompile
\* returned is the mnemonic of o, its arguments, each after a single space, and
\* the comment that names the parameters of the mnemonic, if it has any.
IsDecompiledCommand(o, args) ==
    /\ ~decompiled.raised
    /\ LET command == SCRIPT_COMMANDS[o]
           shown   == command \o SpacedArguments(args)
           text    == decompiled.value
           rest    == SubSeq(text, Len(shown) + 1, Len(text))
       IN  /\ StartsWith(text, shown)
           /\ SubSeq(text, Len(text), Len(text)) = "\n"
           /\ IF command \in DOMAIN script_command_parameters
              THEN StartsWith(rest, " // " \o Join(", ", script_command_parameters[command]))
              ELSE rest = "\n"

\* C11: for every opcode o of SCRIPT_COMMANDS, also '.', and every argument list
\* of the arity of its command, decompile of the packed line o.arg1...argn
\* recognises the opcode and prints the mnemonic, the arguments, each after a
\* single space, and the annotation comment.
C11_OpcodeRecognised ==
    pc = "loaded"
    => \A o \in KnownOpcodes :
           StartsWith(packed, o)
           => \A args \in SeqsBetween(PackedArgs, Arity(SCRIPT_COMMANDS[o]),
                                      Arity(SCRIPT_COMMANDS[o])) :
                  packed = PackedLine(<< o >> \o args) => IsDecompiledCommand(o, args)

\* The line the loop of decompile is about to read.
CurrentLine == PackedLinesOf(packed)[loop.k]

\* A step of the loop of decompile over a line.
IsLoopStep == pc = "decompiling" /\ loop'.k = loop.k + 1

\* The first '.'-separated token of a line, trimmed, is a key of SCRIPT_COMMANDS.
HasKnownOpcode(line) == Split(Strip(line), ".")[1] \in KnownOpcodes

\* C12: pass-through.  A line whose first token is no key of SCRIPT_COMMANDS is
\* appended to the result character for character, followed by a newline, and
\* the indentation stays as it is.
C12_PassThrough ==
    [][ (IsLoopStep /\ ~HasKnownOpcode(CurrentLine))
        => /\ ~loop'.acc.raised
           /\ loop'.acc.result = loop.acc.result \o CurrentLine \o "\n"
           /\ loop'.acc.indentation = loop.acc.indentation ]_vars

\* An unknown opcode between spaces, read inside an if block: the line is in the
\* result with its spaces and the indentation is still 4.
C12_Witness ==
    /\ pc = "decompiling"
    /\ loop.k = 3
    /\ PackedLinesOf(packed)[1] = "=.1"
    /\ PackedLinesOf(packed)[2] = " zz.1 "
    /\ loop.acc.result = "ifTriggerIsActive 1 // id\n zz.1 \n"
    /\ loop.acc.indentation = 4

\* The mnemonic of a line with a known opcode.
MnemonicOf(line) == SCRIPT_COMMANDS[Split(Strip(line), ".")[1]]

\* What a step of the loop appended to the result.
Appended == SubSeq(loop'.acc.result, Len(loop.acc.result) + 1, Len(loop'.acc.result))

\* The step printed the line of the mnemonic m after n spaces.
PrintedAt(m, n) ==
    /\ StartsWith(Appended, Spaces(n) \o m)
    /\ ~StartsWith(Appended, Spaces(n + 1))

\* The change of the indentation by a step of the loop over a line.
IndentationStep ==
    IF ~HasKnownOpcode(CurrentLine) \/ loop'.acc.raised
    THEN loop'.acc.indentation = loop.acc.indentation
    ELSE IF StartsWith(MnemonicOf(CurrentLine), "if")
    THEN /\ loop'.acc.indentation = loop.acc.indentation + 4
         /\ PrintedAt(MnemonicOf(CurrentLine), loop.acc.indentation)
    ELSE IF MnemonicOf(CurrentLine) = "endIf"
    THEN /\ loop'.acc.indentation =
                IF loop.acc.indentation >= 4 THEN loop.acc.indentation - 4 ELSE 0
         /\ PrintedAt("endIf", loop'.acc.indentation)
    ELSE loop'.acc.indentation = loop.acc.indentation

\* C13: the indentation of decompile starts at 0, grows by 4 right after a line
\* whose mnemonic begins with 'if' (the line itself is printed at the old
\* depth), shrinks by 4, floored at 0, right before an endIf line is printed,
\* and no other line changes it; it is always a non-negative multiple of 4.
C13_Indentation ==
    /\ [](pc = "decompiling"
          => /\ loop.acc.indentation >= 0
             /\ loop.acc.indentation % 4 = 0
             /\ loop.k = 1 => loop.acc.indentation = 0)
    /\ [][ IsLoopStep => IndentationStep ]_vars

\* An if block closed by its endIf, and then an endIf without if: it is printed
\* without indentation and the indentation stays 0.
C13_Witness ==
    /\ pc = "decompiling"
    /\ packed = "=.1\n7\n7\n=.1"
    /\ loop.k = 4
    /\ loop.acc.result = "ifTriggerIsActive 1 // id\nendIf\nendIf\n"
    /\ loop.acc.indentation = 0

\* C14: an else line is printed with as many leading spaces as the line of its
\* enclosing if, at every nesting depth.  Inside a block the line of the
\* enclosing if was printed 4 spaces left of the indentation in effect.
C14_ElseFlushWithIf ==
    [][ (/\ IsLoopStep
         /\ HasKnownOpcode(CurrentLine)
         /\ MnemonicOf(CurrentLine) = "else"
         /\ loop.acc.indentation >= 4)
        => PrintedAt("else", loop.acc.indentation - 4) ]_vars

\* A line without the text from its first '//' on.
CutComment(line) ==
    LET c == FindFrom(line, "//", 1)
    IN  IF c = 0 THEN line ELSE SubSeq(line, 1, c - 1)

\* A line with the text from its first '//' on replaced by another comment.
ReplaceComment(line) ==
    IF FindFrom(line, "//", 1) = 0 THEN line ELSE CutComment(line) \o "// foo 1 //"

\* The script with the comment of every line deleted.
WithoutComments(text) ==
    LET lines == Split(text, "\n")
    IN  Join("\n", [ i \in 1..Len(lines) |-> CutComment(lines[i]) ])

\* The script with the comment of every line replaced.
WithOtherComments(text) ==
    LET lines == Split(text, "\n")
    IN  Join("\n", [ i \in 1..Len(lines) |-> ReplaceComment(lines[i]) ])

\* C15: comment stripping.  The text of a line from its first '//' on has no
\* effect: with that text deleted or replaced, compile returns the same packed
\* text or the same errors.
C15_CommentsIgnored ==
    pc # "source"
    => /\ compiled = compile(WithoutComments(script))
       /\ compiled = compile(WithOtherComments(script))

\* A script with a command followed by a comment and a line that is a comment
\* only, compiled to packed text.
C15_Witness ==
    /\ pc = "compiled"
    /\ Len(source) >= 2
    /\ \E i \in 1..Len(source) :
           /\ TypedTokens(source[i]) # << >>
           /\ FindFrom(SourceLine(source[i]), "//", 1) > 1
    /\ \E i \in 1..Len(source) : StartsWith(SourceLine(source[i]), "//")
    /\ WithoutComments(script) # script
    /\ compiled[1] = TRUE

\* The words of a typed line that are not empty.
NonEmptyWords(words) == FilterNonEmpty(words)

\* The source typed with the given indentation in front of every line, the given
\* whitespace between two words and the given whitespace at the end of every line.
Retyped(src, lead, sep, trail) ==
    Join("\n", [ i \in 1..Len(src) |-> lead \o Join(sep, NonEmptyWords(src[i])) \o trail ])

\* Ways to type the whitespace of a line: indentation, run between words, end.
SpaceTypings == { << "", " ", "" >>, << "    ", "   ", "  " >> }

TabTypings == { << "\t", " ", "" >>, << "", "\t", "" >>, << "", " ", "\t" >> }

\* C16: tokenisation.  Leading indentation, trailing whitespace and the kind and
\* length of the whitespace between two tokens (one space, several spaces, a
\* tab) do not change what compile returns.
C16_WhitespaceInsignificant ==
    pc # "source"
    => \A t \in SpaceTypings \cup TabTypings :
           compiled = compile(Retyped(source, t[1], t[2], t[3]))

\* A dictionary and its reverse are inverse to each other.
AreInverse(commands, reverse) ==
    /\ \A o \in DOMAIN commands :
           /\ commands[o] \in DOMAIN reverse
           /\ reverse[commands[o]] = o
    /\ \A m \in DOMAIN reverse :
           /\ reverse[m] \in DOMAIN commands
           /\ commands[reverse[m]] = m

\* C17: the command table is a bijection.  SCRIPT_COMMANDS maps distinct opcode
\* characters to distinct mnemonics, every key is a single character, and
\* REVERSE_SCRIPT_COMMANDS, as the loop builds it, is its exact inverse and of the
\* same size.
C17_TablesBijective ==
    (tables.at = "loaded" /\ tables.items = SCRIPT_COMMANDS_items)
    => /\ tables.commands = SCRIPT_COMMANDS
       /\ tables.reverse = REVERSE_SCRIPT_COMMANDS
       /\ \A o \in DOMAIN tables.commands : Len(o) = 1
       /\ \A o1, o2 \in DOMAIN tables.commands :
              o1 # o2 => tables.commands[o1] # tables.commands[o2]
       /\ AreInverse(tables.commands, tables.reverse)
       /\ Cardinality(DOMAIN tables.commands) = Cardinality(DOMAIN tables.reverse)
       /\ Cardinality(DOMAIN tables.commands) = Len(tables.items)

\* The tables of the source, built to the end: '.' and catchWizform map to each
\* other.
C17_Witness ==
    /\ pc = "loading"
    /\ tables.at = "loaded"
    /\ tables.items = SCRIPT_COMMANDS_items
    /\ tables.k = Len(SCRIPT_COMMANDS_items)
    /\ tables.commands["."] = "catchWizform"
    /\ tables.reverse["catchWizform"] = "."

\* Two opcodes of the dictionary carry the same mnemonic.
SharesMnemonic(commands) ==
    \E o1, o2 \in DOMAIN commands : o1 # o2 /\ commands[o1] = commands[o2]

\* C18: building the tables fails fast.  When two opcodes are mapped to the same
\* mnemonic, the loop that builds REVERSE_SCRIPT_COMMANDS does not run to its
\* end with one of the two opcodes kept: the tables are never loaded.
C18_FailsFast ==
    SharesMnemonic(tables.commands) => tables.at # "loaded"

\* The packed text is one line of a known opcode with as many arguments as the
\* arity of its command.
IsOnePackedCommand ==
    /\ FindFrom(packed, "\n", 1) = 0
    /\ Split(packed, ".")[1] \in KnownOpcodes
    /\ Len(Split(packed, ".")) - 1 = Arity(SCRIPT_COMMANDS[Split(packed, ".")[1]])

PackedCommand == SCRIPT_COMMANDS[Split(packed, ".")[1]]

PackedArguments == Tail(Split(packed, "."))

\* A row of the card table carries the entity id.
HasCard(rows, id) == \E k \in 1..Len(rows) : str(getCardEntityId(rows[k].card)) = id

\* The integer each of the index arguments denotes; an argument outside the
\* domain is no integer.
IndexValue ==
    [ a \in { "0", "13", "14", "40", "41", "99", "-1", "-0", "-14", "+1", " 1", "1_0" } |->
        CASE a = "0"   -> 0
          [] a = "13"  -> 13
          [] a = "14"  -> 14
          [] a = "40"  -> 40
          [] a = "41"  -> 41
          [] a = "99"  -> 99
          [] a = "-1"  -> 0 - 1
          [] a = "-0"  -> 0
          [] a = "-14" -> 0 - 14
          [] a = "+1"  -> 1
          [] a = " 1"  -> 1
          [] a = "1_0" -> 10 ]

\* The text denotes an index of the list, counted from 0.
IsIndexOf(text, list) ==
    \E i \in 0..(Len(list) - 1) :
        \/ text = str(i)
        \/ text \in DOMAIN IndexValue /\ IndexValue[text] = i

\* The card type is none of 0..3, or the id has no row in the table of its type.
CardMiss(sql, card_type, id) ==
    \/ card_type \notin {"0", "1", "2", "3"}
    \/ card_type = "0" /\ ~HasCard(sql.fb0x04, id)
    \/ card_type = "1" /\ ~HasCard(sql.fb0x03, id)
    \/ card_type = "2" /\ ~HasCard(sql.fb0x01, id)

\* The argument the annotation resolves through the database or looks up in a
\* list has no entry there.
ResolverMiss(command, args, sql) ==
    \/ command = "wizform" /\ ~HasCard(sql.fb0x01, args[2])
    \/ command \in {"defaultWizForm", "ifIsWizform"} /\ ~HasCard(sql.fb0x01, args[1])
    \/ command \in {"say", "talk"} /\ args[1] \notin DOMAIN sql.fb0x06
    \/ command = "choice" /\ args[2] \notin DOMAIN sql.fb0x06
    \/ /\ command \in {"givePlayerCards", "setupGambling", "ifPlayerHasCards",
                        "removePlayerCards"}
       /\ CardMiss(sql, args[2], args[3])
    \/ command = "modifyWizform" /\ args[1] = "7" /\ ~HasCard(sql.fb0x01, args[2])
    \/ /\ command = "ifPlayerHasSpecials"
       /\ args[1] = "3"
       /\ ~IsIndexOf(args[2], ELEMENT_CLASSES)
    \/ /\ command \in {"playAnimation", "playPlayerAnimation"}
       /\ ~IsIndexOf(args[1], AVAILABLE_ANIMATIONS)

\* The subcommand of modifyWizform, the mode of lookAtPlayer or the id of
\* startActorEffect is none of those the annotation knows.
DescriptionMiss(command, args) ==
    \/ /\ command = "modifyWizform"
       /\ args[1] \notin {"0", "1", "2", "7", "8", "16", "17", "18"}
    \/ command = "lookAtPlayer" /\ args[2] \notin {"-1", "1", "2", "3"}
    \/ command = "startActorEffect" /\ args[1] \notin {"0", "1"}

\* What decompile returned holds the marker.
HasMarker == ~decompiled.raised /\ FindFrom(decompiled.value, "NULL", 1) > 0

ElementOrMarker(list, a) ==
    IF a \in DOMAIN IndexValue /\ IndexValue[a] >= 0 /\ IndexValue[a] < Len(list)
    THEN list[IndexValue[a] + 1]
    ELSE "NULL"

AnimationLine(a) ==
    "playAnimation " \o a \o " 0 // animationType, UNUSED; Animation: "
        \o ElementOrMarker(AVAILABLE_ANIMATIONS, a) \o "\n"

SpecialsLine(a) ==
    "ifPlayerHasSpecials 3 " \o a \o " // condition, argument; Player can show "
        \o ElementOrMarker(ELEMENT_CLASSES, a) \o " Fairy\n"

\* C20: indexListByMaybeInt(list, s) is list[i] exactly when s is an integer i
\* with 0 <= i < len(list) and the marker NULL for every other s; it never
\* raises and a negative index never reaches the end of the list.
C20_IndexOrMarker ==
    pc = "loaded" =>
        \A a \in IndexArgs :
            /\ packed = PackedLine(<<REVERSE_SCRIPT_COMMANDS["playAnimation"], a, "0">>)
                   => decompiled = Returned(AnimationLine(a))
            /\ packed = PackedLine(<<REVERSE_SCRIPT_COMMANDS["ifPlayerHasSpecials"], "3", a>>)
                   => decompiled = Returned(SpecialsLine(a))

\* Element class 99 and animation -1 have been annotated with the marker,
\* or element class 13, the last one, with its name.
C20_Witness ==
    /\ pc = "loaded"
    /\ \/ /\ packed = "@.3.99"
          /\ decompiled.value
                 = "ifPlayerHasSpecials 3 99 // condition, argument; Player can show NULL Fairy\n"
       \/ /\ packed = "A.-1.0"
          /\ decompiled.value
                 = "playAnimation -1 0 // animationType, UNUSED; Animation: NULL\n"
       \/ /\ packed = "@.3.13"
          /\ decompiled.value = SpecialsLine("13")
          /\ FindFrom(decompiled.value, "NULL", 1) = 0


\* The commands annotated with a card description.
CardCommands == { "givePlayerCards", "setupGambling", "ifPlayerHasCards", "removePlayerCards" }

\* The name the sample database holds for a card of the kind with the entity
\* id: item 0 is the Key, spell 1 is Flash, fairy 1 is Sillia; fairy 3 has a
\* row without label, every other id has no row.
NameOfCard(sql, kind, id) ==
    IF sql = SampleDB /\ kind = "0" /\ id = "0" THEN "Key"
    ELSE IF sql = SampleDB /\ kind = "1" /\ id = "1" THEN "Flash"
    ELSE IF sql = SampleDB /\ kind = "2" /\ id = "1" THEN "Sillia"
    ELSE "NULL"

CardAnnotation(sql, kind, id) ==
    IF kind = "0" THEN "Item: " \o NameOfCard(sql, kind, id)
    ELSE IF kind = "1" THEN "Spell: " \o NameOfCard(sql, kind, id)
    ELSE IF kind = "2" THEN "Fairy: " \o NameOfCard(sql, kind, id)
    ELSE IF kind = "3" THEN "Blank"
    ELSE "NULL"

\* C21: the card annotation is selected by the card kind: 0 gives 'Item: ' and
\* the name, 1 'Spell: ' and the name, 2 'Fairy: ' and the name, 3 'Blank'
\* whatever the database holds, every other kind exactly 'NULL'; for kinds 0-2
\* a missing entry gives the prefix followed by 'NULL'.
C21_CardKindSelects ==
    (pc = "loaded" /\ IsOnePackedCommand /\ PackedCommand \in CardCommands) =>
        decompiled = Returned(PackedCommand \o " " \o Join(" ", PackedArguments)
                              \o " // amount, cardType, id; "
                              \o CardAnnotation(sql_connection, PackedArguments[2],
                                                PackedArguments[3])
                              \o "\n")

\* A spell with entry, a fairy whose row has no label, a blank card and an
\* unknown kind have been annotated.
C21_Witness ==
    /\ pc = "loaded"
    /\ sql_connection = SampleDB
    /\ \/ packed = "1.1.1.1"
          /\ decompiled.value = "givePlayerCards 1 1 1 // amount, cardType, id; Spell: Flash\n"
       \/ packed = "6.1.2.3"
          /\ decompiled.value = "ifPlayerHasCards 1 2 3 // amount, cardType, id; Fairy: NULL\n"
       \/ packed = "9.0.3.1"
          /\ decompiled.value = "removePlayerCards 0 3 1 // amount, cardType, id; Blank\n"
       \/ packed = "B.1.7.1"
          /\ decompiled.value = "setupGambling 1 7 1 // amount, cardType, id; NULL\n"


\* The packed text is one line with a known opcode.
IsOneKnownLine ==
    /\ FindFrom(packed, "\n", 1) = 0
    /\ Split(Strip(packed), ".")[1] \in KnownOpcodes

\* The command and its arguments as decompile prints them, before any comment.
PrintedCommand ==
    PackedCommand \o (IF Len(PackedArguments) > 0
                      THEN " " \o Join(" ", PackedArguments) ELSE "")

\* C22: for every mnemonic of script_command_parameters and every argument
\* list of its arity the annotation begins with ' // ' and the parameter
\* names joined by ', ', with or without description; a command outside
\* script_command_parameters gets no comment.
C22_NamesAlways ==
    pc = "loaded" =>
        /\ (IsOnePackedCommand /\ PackedCommand \in DOMAIN script_command_parameters) =>
               /\ ~decompiled.raised
               /\ StartsWith(decompiled.value,
                             PrintedCommand \o " // "
                                 \o Join(", ", script_command_parameters[PackedCommand]))
        /\ (IsOneKnownLine /\ packed = Strip(packed)
                /\ PackedCommand \notin DOMAIN script_command_parameters) =>
               decompiled = Returned(PrintedCommand \o "\n")

\* A command whose mode has no description shows its names only, and a
\* command without parameters was printed with its stray argument and no comment.
C22_Witness ==
    /\ pc = "loaded"
    /\ \/ packed = "+.1.0"
          /\ decompiled.value = "lookAtPlayer 1 0 // seconds/10, mode\n"
       \/ packed = "7.1"
          /\ PackedCommand \notin DOMAIN script_command_parameters
          /\ decompiled.value = PackedCommand \o " 1\n"


\* The number of newlines of a text.
Newlines(text) == Len(Split(text, "\n")) - 1

\* C23: decompile ends every emitted line with a newline, the last included:
\* the text it returns ends with a newline and, the resolver strings holding
\* no newline, has one newline more than the input, that is as many lines as
\* the input split on newlines.
C23_EveryLineTerminated ==
    (pc = "loaded" /\ ~decompiled.raised) =>
        LET text == decompiled.value
        IN  /\ Len(text) >= 1
            /\ SubSeq(text, Len(text), Len(text)) = "\n"
            /\ Newlines(text) = Newlines(packed) + 1
            /\ Newlines(text) = Len(Split(packed, "\n"))

\* Three lines, the last one empty, gave three terminated lines; the empty
\* text gave one newline.
C23_Witness ==
    /\ pc = "loaded"
    /\ ~decompiled.raised
    /\ \/ /\ Newlines(packed) = 2
          /\ Split(packed, "\n")[3] = ""
          /\ Split(packed, "\n")[1] # ""
          /\ Newlines(decompiled.value) = 3
       \/ packed = "" /\ decompiled.value = "\n"


\* C24: no state survives a call.  In every sequence of compile and decompile
\* calls the result of a call is that of its own arguments, the indentation
\* of decompile starts at 0 in every call, also after a call that ended inside
\* an open if block, and the command tables stay as they were loaded.
C24_NoStateSurvives ==
    /\ tables = TablesLoaded
    /\ pc = "loaded" => decompiled = decompile(sql_connection, packed)
    /\ (pc = "decompiling" /\ loop.k = 1) => loop.acc = DecompileStart.acc
    /\ (pc = "compiled" /\ script = "else") => compiled = << TRUE, "8\n" >>
    /\ (pc = "compiled" /\ script = "foo")
           => compiled = << FALSE, << "Line 1: Unknown command: foo" >> >>

\* The call before returned a text that ends inside an open if block, and the
\* call in progress has printed endIf, its first line, at the margin.
C24_Witness ==
    /\ pc = "decompiling"
    /\ decompiled = Returned("ifTriggerIsActive 1 // id\n    ifTriggerIsActive 1 // id\n")
    /\ packed = "7"
    /\ loop.k = 2
    /\ loop.acc.result = "endIf\n"
    /\ loop.acc.indentation = 0


\* C25: re-save stability.  When compile succeeds on a script with packed text p,
\* compile of decompile(p), the text a save puts back into the editor, succeeds
\* too and returns p.
C25_ResaveStable ==
    (pc = "reformatted" /\ compiled[1] = TRUE)
    => /\ ~decompiled.raised
       /\ compile(decompiled.value) = << TRUE, compiled[2] >>


\* The highest index makeDecompiledParameterComment reads of the arguments of
\* the commands it handles.
HighestIndexRead ==
       "wizform" :> 1 @@ "defaultWizForm" :> 0 @@ "ifIsWizform" :> 0
    @@ "say" :> 0 @@ "talk" :> 0 @@ "choice" :> 1
    @@ "givePlayerCards" :> 2 @@ "setupGambling" :> 2
    @@ "ifPlayerHasCards" :> 2 @@ "removePlayerCards" :> 2
    @@ "modifyWizform" :> 1 @@ "ifPlayerHasSpecials" :> 1 @@ "lookAtPlayer" :> 1
    @@ "playAnimation" :> 0 @@ "playPlayerAnimation" :> 0 @@ "startActorEffect" :> 0

\* No argument of the source holds a '.'.
NoDottedArgument(src) ==
    \A i \in 1..Len(src) :
        \A k \in 2..Len(TypedTokens(src[i])) : FindFrom(TypedTokens(src[i])[k], ".", 1) = 0

\* C26: decompile does not raise on the packed text of a successful compile:
\* every argument index the annotation reads is below the arity compile
\* enforced for the command, no argument holding a '.'.
C26_CompiledNeverRaises ==
    /\ \A c \in DOMAIN HighestIndexRead : HighestIndexRead[c] < Arity(c)
    /\ (pc = "reformatted" /\ NoDottedArgument(source)) => ~decompiled.raised

\* wizform, whose annotation reads arguments[1], was compiled with its three
\* arguments and decompiled with its annotation.
C26_Witness ==
    /\ pc = "reformatted"
    /\ source = << << "wizform", "1", "1", "1" >> >>
    /\ sql_connection = SampleDB
    /\ decompiled = Returned("wizform 1 1 1 // deckSlot, fairyId, level; Sillia\n\n")


\* What decompile printed after the command and its arguments, without the
\* final newline: the annotation.
Annotation ==
    SubSeq(decompiled.value, Len(PrintedCommand) + 1, Len(decompiled.value) - 1)

\* The annotation after ' // ' and the parameter names.
AfterNames ==
    SubSeq(Annotation,
           Len(" // " \o Join(", ", script_command_parameters[PackedCommand])) + 1,
           Len(Annotation))

\* C27: a non-empty annotation is ' // ' and the names, then nothing, or one
\* '; ' and a description that does not start with ';' itself; for every
\* command and argument list, modifyWizform with its known subcommands included.
C27_OneSeparator ==
    (pc = "loaded" /\ IsOnePackedCommand /\ ~decompiled.raised
        /\ PackedCommand \in DOMAIN script_command_parameters) =>
        \/ AfterNames = ""
        \/ /\ StartsWith(AfterNames, "; ")
           /\ Len(AfterNames) > 2
           /\ SubSeq(AfterNames, 3, 3) # ";"


\* The command names makeDecompiledParameterComment compares command with.
DispatchedCommands == DOMAIN HighestIndexRead

\* C28: the tables are consistent.  Every key of script_command_parameters is
\* a mnemonic of the command table and so a key of the reverse table compile
\* looks commands up in, and every command name the annotation dispatches on
\* is a key of script_command_parameters.
C28_TablesConsistent ==
    (tables.at = "loaded" /\ tables.items = SCRIPT_COMMANDS_items)
    => /\ \A m \in DOMAIN script_command_parameters :
              /\ \E o \in DOMAIN tables.commands : tables.commands[o] = m
              /\ m \in DOMAIN tables.reverse
       /\ \A c \in DispatchedCommands :
              /\ c \in DOMAIN script_command_parameters
              /\ c \in DOMAIN tables.reverse

\* The tables of the source are built: startActorEffect, which the annotation
\* dispatches on, has its parameter list and its opcode.
C28_Witness ==
    /\ tables.at = "loaded"
    /\ tables.items = SCRIPT_COMMANDS_items
    /\ "startActorEffect" \in DispatchedCommands
    /\ script_command_parameters["startActorEffect"] = << "id" >>
    /\ tables.commands[tables.reverse["startActorEffect"]] = "startActorEffect"


\* The string holds the substring, compared without regard to case.
HoldsIgnoringCase(string, substring) ==
    LET folded == casefold(string)
        wanted == casefold(substring)
    IN  \E i \in 1..(Len(folded) + 1) :
            /\ i + Len(wanted) - 1 <= Len(folded)
            /\ SubSeq(folded, i, i + Len(wanted) - 1) = wanted

\* The item matches every substring of the list.
MatchesAll(item, substring_list) ==
    \A s \in { substring_list[k] : k \in 1..Len(substring_list) } :
        HoldsIgnoringCase(item.string_to_search, s)

\* The [displayed_text, search_suggestion] pairs of the matching items of a list
\* of items, in the order of the list.
MatchingPairs(items, substring_list) ==
    LET matches == SelectSeq(items, LAMBDA item : MatchesAll(item, substring_list))
    IN  [ i \in 1..Len(matches) |->
            << matches[i].displayed_text, matches[i].search_suggestion >> ]

\* searchSubstrings has returned.
HasSearched == pc = "searching" /\ search.called = "searchSubstrings"

\* The two lists hold the same elements the same number of times.
IsPermutation(a, b) ==
    /\ Len(a) = Len(b)
    /\ \A x \in { a[i] : i \in 1..Len(a) } :
           Cardinality({ i \in 1..Len(a) : a[i] = x })
               = Cardinality({ i \in 1..Len(b) : b[i] = x })

MissingItemIds == { id \in EntryIds.Item : FirstItemRow(SampleDB.fb0x04, id) = 0 }

\* C30: setupEditForID with an item id that matches no row returns False and
\* does not raise, current_item_uid is None afterwards, and startEditing
\* shows the introduction frame with the save button disabled.
C30_MissingItemRefused ==
    [][ \A id \in MissingItemIds :
            StartEditing("Item", id) =>
                /\ log'.returned = "False"
                /\ item_view'.current_item_uid = None
                /\ container'.current_frame_pair = "IntroductionFrame"
                /\ container'.save_button = "disabled" ]_vars

=============================================================================
